---- MODULE Spec2Model ----
(***************************************************************************)
(* Model of the rithcon agent runtime: the background service worker      *)
(* (background.js), the run orchestrator and plan sanitizer (agent.js),    *)
(* the side panel's stop / approval plumbing (sidepanel.js) and the        *)
(* content script (content.js, kept in src/README.md).                     *)
(*                                                                         *)
(* Every action is one run-to-completion slice of a JavaScript handler:    *)
(* the code between two awaits, which the single-threaded event loop       *)
(* executes without interleaving.  A pc value names the await the handler  *)
(* is parked on.                                                           *)
(***************************************************************************)
EXTENDS Integers, Sequences, FiniteSets, TLC

(***************************************************************************)
(* Bounds of the model.                                                    *)
(***************************************************************************)
\* most tabs a browser window holds
MaxTabs == 2

Tabs == 1..MaxTabs
RunIds == {"run-1", "run-2"}

(***************************************************************************)
(* Error messages.  A message is a literal; the substring tests of the     *)
(* code (String.includes on the lower-cased message, regex alternations)   *)
(* are evaluated on the table of the fragments each literal contains.      *)
(***************************************************************************)
MsgCanceled == "Run was canceled."
MsgRestricted == "Cannot automate browser-internal pages. Open a regular website tab and retry."
MsgNoReceiver == "Could not establish connection. Receiving end does not exist."
MsgNoAccess == "Cannot access contents of the page. Extension manifest must request permission to access the respective host."
MsgTimedOut == "Timed out waiting for tab."
MsgContentError == "Content script returned an error."
MsgClickNotFound == "Could not find element to click."
MsgInputNotFound == "Input not found for selector."
MsgNoFields == "No form fields matched or verified."
MsgUnverified == "Unable to verify typed value."
MsgNoMedia == "No playable media found on this page."
MsgNoTab == "No tab with id."
MsgNoMatchingTabs == "No matching tabs found for this action."
MsgUnsupported == "Unsupported action"
MsgAllFailed == "Failed on all tabs."
MsgNoAction == "Plan action is missing."
MsgAbort == "Request canceled"
MsgNeedsField == "FILL_FORM requires at least one field."
MsgNone == ""

Fragments(message) ==
    CASE message = MsgCanceled -> {"canceled"}
      [] message = MsgAbort -> {"canceled"}
      [] message = MsgRestricted -> {"cannot automate browser-internal pages"}
      [] message = MsgNoReceiver -> {"receiving end does not exist"}
      [] message = MsgNoAccess -> {"cannot access contents of the page", "must request permission"}
      [] message = MsgTimedOut -> {"timed out waiting for tab"}
      [] message = MsgClickNotFound -> {"could not find element"}
      [] message = MsgInputNotFound -> {"input not found"}
      [] message = MsgNoFields -> {"no form fields matched"}
      [] OTHER -> {}

Includes(message, needle) == needle \in Fragments(message)

(***************************************************************************)
(* background.js                                                           *)
(***************************************************************************)
CONTENT_ACTIONS ==
    {"PLAY_MEDIA", "CLICK", "TYPE", "FILL_FORM", "ANALYZE_PAGE", "SCRAPE_PAGE", "VISUALIZE_PAGE"}

NAV_ACTIONS == {"NAVIGATE", "GOOGLE_SEARCH", "SEARCH_YOUTUBE"}

maxAttempts == 8

\* a JavaScript value that is not a string (typeof value !== 'string')
NotAString == "<not a string>"

\* String.prototype.trim().toUpperCase() on the literals the model uses
TrimUpper(text) ==
    CASE text = "click" -> "CLICK"
      [] text = " Click " -> "CLICK"
      [] text = "reply" -> "REPLY"
      [] text = " navigate" -> "NAVIGATE"
      [] text = "wait " -> "WAIT"
      [] text = "   " -> ""
      [] OTHER -> text

normalizeAction(action) == IF action = NotAString THEN "" ELSE TrimUpper(action)

\* isRetryableContentError that also retries a canceled run
isRetryableContentError_canceled(message) ==
    Includes(message, "canceled") \/ Includes(message, "receiving end does not exist")

isRetryableContentError(message) ==
    \/ Includes(message, "receiving end does not exist")
    \/ Includes(message, "frame with id 0 is showing error page")
    \/ Includes(message, "cannot access contents of the page")
    \/ Includes(message, "must request permission")
    \/ Includes(message, "timed out waiting for tab")
    \/ Includes(message, "cannot automate browser-internal pages")

isRestrictedUrl(url) == url = "chrome://settings"

\* Target Specs as background.js receives them
TargetActive == [mode |-> "active", tabId |-> 0, value |-> ""]
TargetAll == [mode |-> "all", tabId |-> 0, value |-> ""]
TargetDomain == [mode |-> "domain", tabId |-> 0, value |-> "example.com"]
TargetTab(n) == [mode |-> "tab_id", tabId |-> n, value |-> ""]
NoTarget == [mode |-> "none", tabId |-> 0, value |-> ""]

VARIABLES
    RUN_STATES,     \* run id -> [present, canceled]: the RUN_STATES map
    openTabs,       \* number of tabs open in the current window
    tabUrl,         \* tab id -> url shown by the tab
    jobPc,          \* await the EXECUTE_AGENT_PLAN handler is parked on
    jobRunId,       \* its runId
    jobPlan,        \* its plan step
    jobTabs,        \* the tabs resolveTargetTabs returned, in order
    tabPc,          \* per tab: await executeActionOnTab is parked on
    attempt,        \* per tab: runContentAction's attempt
    caught,         \* per tab: the error bound by runContentAction's catch
    results,        \* per tab: the result executeActionOnTab returned
    jobResponse,    \* what the handler passes to sendResponse
    candidate,      \* the candidate plan handed to sanitizePlan
    defaultTarget,  \* the default target of the run
    plan,           \* the plan sanitizePlan returned
    planned,        \* whether sanitizePlan has run
    prompt,         \* what the code's tests read off the user's command
    run,            \* processAgentCommand: its position and its local variables
    isProcessing,           \* side panel state
    stopRequested,
    signalAborted,          \* currentAbortController.signal.aborted
    pendingApprovalResolver,\* whether an approval card waits for its answer
    currentRunId,
    outbox,         \* runtime messages of the side panel the worker has not received
    cancelRequested,\* history: stopCurrentProcess ran during the run
    card,           \* the approval card last appended: its buttons, timer and resolutions
    chat,           \* chat mode: the input box and the invocations of handleSendMessage
    pendingUrl,     \* tab id -> url the tab is navigating to, "" when none
    tabStatus,      \* tab id -> loading status of the tab
    latestTab,      \* per tab: waitForTabReady's latestTab
    contentTab,     \* per tab: the tab waitForTabReady returned to runContentAction
    lastGot,        \* history, per tab: what chrome.tabs.get last resolved to
    readyExit,      \* history, per tab: how the last waitForTabReady ended
    listenerInstalled, \* per tab: window.__rithconContentListenerInstalled of its document
    listeners,      \* per tab: the onMessage listeners of its document
    injected,       \* history, per tab: the injections of content.js into its document
    delivered,      \* history: how often the last RUN_ACTION ran and was answered
    ran,            \* history: how often handleAction ran for the content action under way
    contentStep,    \* content.js: the plan step handleAction received
    elements,       \* the fields of the document: kind, value, options, reaction, form
    page,           \* what the document offers to submit a form
    handled,        \* what handleAction returned or threw
    triggered,      \* history: the submission methods triggered, in order
    fieldSets,      \* history: the descriptors fillForm filled, missed and failed to verify
    lookup,         \* findFieldElement: the descriptor, the document and the result
    outline,        \* element -> its style.outline
    dataset,        \* element -> its dataset.rithconPrevOutline
    visible,        \* element -> isElementVisible
    timers,         \* the pending auto-revert timers, each with its candidates
    calls,          \* history: the invocations of visualizePage
    overlapped,     \* history: visualizePage ran while a timer was pending
    original,       \* history: element -> its style.outline before any visualizePage
    rawResponse,    \* the text generateChatResponse resolved to, as tokens
    todos,          \* the todos processAgentCommand keeps after planning
    shown           \* history: the texts the run appended to the chat and to the log

bgVars == <<RUN_STATES, jobPc, jobRunId, jobPlan, jobTabs, tabPc, attempt, caught,
            results, jobResponse>>

pageVars == <<pendingUrl, tabStatus, latestTab, contentTab, lastGot, readyExit,
              listenerInstalled, listeners, injected, delivered, ran>>

domVars == <<contentStep, elements, page, handled, triggered, fieldSets, lookup, outline,
             dataset, visible, timers, calls, overlapped, original>>

browserVars == <<openTabs, tabUrl, pageVars, domVars>>

MaxOutbox == 2

plannerVars == <<rawResponse, todos, shown>>

planVars == <<candidate, defaultTarget, plan, planned, plannerVars>>

panelVars == <<prompt, run, isProcessing, stopRequested, signalAborted,
               pendingApprovalResolver, currentRunId, outbox, cancelRequested, card,
               chat>>

vars == <<RUN_STATES, openTabs, tabUrl, jobPc, jobRunId, jobPlan, jobTabs, tabPc, attempt,
          caught, results, jobResponse, candidate, defaultTarget, plan, planned, prompt, run,
          isProcessing, stopRequested, signalAborted, pendingApprovalResolver, currentRunId,
          outbox, cancelRequested, card, chat, pageVars, domVars, plannerVars>>

NoResult == [status |-> "none", error |-> MsgNone]
SuccessResult == [status |-> "success", error |-> MsgNone]
ErrorResult(message) == [status |-> "error", error |-> message]
NoResponse == [status |-> "none", error |-> MsgNone, results |-> <<>>]
NoPlan == [action |-> "", target |-> NoTarget]

setRunState(states, runId, canceled) ==
    [states EXCEPT ![runId] = [present |-> TRUE, canceled |-> canceled]]

\* a cancellation check that looks at every run of the map
isCanceled_anyRun(states, runId) ==
    \E r \in RunIds : states[r].present /\ states[r].canceled

\* the condition under which throwIfCanceled throws
isCanceled(states, runId) == states[runId].present /\ states[runId].canceled

\* the tabs chrome.tabs.query({currentWindow: true}) lists, in window order
WindowTabs == [i \in 1..openTabs |-> i]

RECURSIVE FilterSeq(_, _)
FilterSeq(s, keep) ==
    IF s = <<>> THEN <<>>
    ELSE IF Head(s) \in keep THEN <<Head(s)>> \o FilterSeq(Tail(s), keep)
    ELSE FilterSeq(Tail(s), keep)

\* hostname of a tab's url contains the needle
HostIncludes(url, needle) == url = "https://example.com/" /\ needle = "example.com"

resolveTargetTabs(target) ==
    CASE target.mode = "tab_id" -> IF target.tabId \in 1..openTabs THEN <<target.tabId>> ELSE <<>>
      [] target.mode = "active" -> <<1>>
      [] target.mode = "all" -> WindowTabs
      [] target.mode = "domain" ->
            FilterSeq(WindowTabs, {t \in Tabs : HostIncludes(tabUrl[t], target.value)})
      [] target.mode = "url_contains" ->
            FilterSeq(WindowTabs, {t \in Tabs : HostIncludes(tabUrl[t], target.value)})
      [] OTHER -> <<1>>

Range(s) == {s[i] : i \in 1..Len(s)}

Finish(response) ==
    /\ jobPc' = "done"
    /\ jobResponse' = response

ErrorResponse(message) == [status |-> "error", error |-> message, results |-> <<>>]
SingleSuccess == [status |-> "success", error |-> MsgNone, results |-> <<SuccessResult>>]

\* executeAgentPlan up to its first await
executeAgentPlan(rawPlan, runId) ==
    /\ jobPc = "idle"
    /\ LET states == setRunState(RUN_STATES, runId, FALSE)
           action == normalizeAction(rawPlan.action)
       IN /\ jobRunId' = runId
          /\ jobPlan' = [rawPlan EXCEPT !.action = action]
          /\ UNCHANGED <<jobTabs, tabPc, attempt, caught, results>>
          /\ IF action = ""
             THEN /\ Finish(ErrorResponse(MsgNoAction))
                  /\ UNCHANGED RUN_STATES
             ELSE /\ RUN_STATES' = states
                  /\ IF isCanceled(states, runId) THEN Finish(ErrorResponse(MsgCanceled))
                     ELSE /\ jobResponse' = NoResponse
                          /\ jobPc' = CASE action = "WAIT" -> "wait"
                                        [] action \in {"OPEN_TAB", "SWITCH_TAB"} -> "tabop"
                                        [] OTHER -> "resolve"

cancelAgentRun(runId) ==
    RUN_STATES' = setRunState(RUN_STATES, runId, TRUE)

\* one turn of waitWithCancellation's loop, after delay(60) settled
waitWithCancellation ==
    /\ jobPc = "wait"
    /\ \E elapsed \in BOOLEAN :
          IF elapsed THEN Finish(SingleSuccess)
          ELSE /\ isCanceled(RUN_STATES, jobRunId)
               /\ Finish(ErrorResponse(MsgCanceled))
    /\ UNCHANGED <<RUN_STATES, jobRunId, jobPlan, jobTabs, tabPc, attempt, caught, results>>

\* chrome.tabs.create / chrome.tabs.update of OPEN_TAB / SWITCH_TAB settles
tabOperation ==
    /\ jobPc = "tabop"
    /\ \E ok \in BOOLEAN :
          IF ok THEN Finish(SingleSuccess) ELSE Finish(ErrorResponse(MsgNoTab))
    /\ UNCHANGED <<RUN_STATES, jobRunId, jobPlan, jobTabs, tabPc, attempt, caught, results>>

\* executeActionOnTab / runTabAction / runContentAction up to the first await
StartPc(action, canceled) ==
    IF canceled THEN "settled"
    ELSE IF action \in NAV_ACTIONS THEN "update"
    ELSE IF action \in CONTENT_ACTIONS THEN "prepare"
    ELSE "settled"

StartResult(action, canceled) ==
    IF canceled THEN ErrorResult(MsgCanceled)
    ELSE IF action \in NAV_ACTIONS \cup CONTENT_ACTIONS THEN NoResult
    ELSE ErrorResult(MsgUnsupported)

\* resolveTargetTabs settles; the fan-out over the resolved tabs starts
fanOut ==
    /\ jobPc = "resolve"
    /\ LET tabs == resolveTargetTabs(jobPlan.target)
           canceled == isCanceled(RUN_STATES, jobRunId)
       IN IF jobPlan.target.mode = "tab_id" /\ tabs = <<>>
          THEN /\ Finish(ErrorResponse(MsgNoTab))
               /\ UNCHANGED <<jobTabs, tabPc, attempt, results>>
          ELSE IF tabs = <<>>
          THEN /\ Finish(ErrorResponse(MsgNoMatchingTabs))
               /\ UNCHANGED <<jobTabs, tabPc, attempt, results>>
          ELSE /\ jobPc' = "fanout"
               /\ jobTabs' = tabs
               /\ tabPc' = [t \in Tabs |-> IF t \in Range(tabs)
                                           THEN StartPc(jobPlan.action, canceled)
                                           ELSE tabPc[t]]
               /\ attempt' = [t \in Tabs |-> IF t \in Range(tabs)
                                                 /\ StartPc(jobPlan.action, canceled) = "prepare"
                                             THEN 1 ELSE attempt[t]]
               /\ results' = [t \in Tabs |-> IF t \in Range(tabs)
                                             THEN StartResult(jobPlan.action, canceled)
                                             ELSE results[t]]
               /\ UNCHANGED jobResponse
    /\ UNCHANGED <<RUN_STATES, jobRunId, jobPlan, caught>>

\* executeActionOnTab returns its result for tab t
Settle(t, result) ==
    /\ tabPc' = [tabPc EXCEPT ![t] = "settled"]
    /\ results' = [results EXCEPT ![t] = result]
    /\ attempt' = [attempt EXCEPT ![t] = 0]
    /\ caught' = [caught EXCEPT ![t] = MsgNone]

\* chrome.tabs.update of a navigation action settles; waitForTabReady starts
navigateTab(t) ==
    /\ jobPc = "fanout"
    /\ tabPc[t] = "update"
    /\ \E ok \in BOOLEAN :
          IF ok THEN /\ tabPc' = [tabPc EXCEPT ![t] = "ready"]
                     /\ UNCHANGED <<results, attempt, caught>>
          ELSE Settle(t, ErrorResult(MsgNoTab))
    /\ UNCHANGED <<RUN_STATES, jobPc, jobRunId, jobPlan, jobTabs, jobResponse>>

\* waitForTabReady of a navigation action returns or throws
waitForTabReady(t) ==
    /\ jobPc = "fanout"
    /\ tabPc[t] = "ready"
    /\ \E returns \in BOOLEAN :
          IF returns THEN Settle(t, SuccessResult)
          ELSE /\ isCanceled(RUN_STATES, jobRunId)
               /\ Settle(t, ErrorResult(MsgCanceled))
    /\ UNCHANGED <<RUN_STATES, jobPc, jobRunId, jobPlan, jobTabs, jobResponse>>

\* the catch block without the attempt ceiling
Catch_noCeiling(t, message) ==
    IF ~isRetryableContentError(message)
    THEN Settle(t, ErrorResult(message))
    ELSE /\ tabPc' = [tabPc EXCEPT ![t] = "backoff"]
         /\ caught' = [caught EXCEPT ![t] = message]
         /\ UNCHANGED <<results, attempt>>

\* the catch block of runContentAction
Catch(t, message) ==
    IF ~isRetryableContentError(message) \/ attempt[t] = maxAttempts
    THEN Settle(t, ErrorResult(message))
    ELSE /\ tabPc' = [tabPc EXCEPT ![t] = "backoff"]
         /\ caught' = [caught EXCEPT ![t] = message]
         /\ UNCHANGED <<results, attempt>>

\* failures of chrome.tabs.get and chrome.scripting.executeScript
InjectErrors == {MsgNoAccess, MsgNoTab}

\* runContentAction: waitForTabReady, the restricted check, executeScript and
\* the cancellation check before the message is sent
runContentAction_prepare(t) ==
    /\ jobPc = "fanout"
    /\ tabPc[t] = "prepare"
    /\ \/ /\ isCanceled(RUN_STATES, jobRunId)
          /\ Catch(t, MsgCanceled)
       \/ /\ isRestrictedUrl(tabUrl[t])
          /\ Catch(t, MsgRestricted)
       \/ /\ ~isRestrictedUrl(tabUrl[t])
          /\ \E message \in InjectErrors : Catch(t, message)
       \/ /\ ~isRestrictedUrl(tabUrl[t])
          /\ ~isCanceled(RUN_STATES, jobRunId)
          /\ tabPc' = [tabPc EXCEPT ![t] = "send"]
          /\ UNCHANGED <<caught, results, attempt>>
    /\ UNCHANGED <<RUN_STATES, jobPc, jobRunId, jobPlan, jobTabs, jobResponse>>

ContentErrors(action) ==
    CASE action = "CLICK" -> {MsgClickNotFound}
      [] action = "TYPE" -> {MsgInputNotFound, MsgUnverified}
      [] action = "FILL_FORM" -> {MsgNoFields}
      [] action = "PLAY_MEDIA" -> {MsgNoMedia}
      [] OTHER -> {MsgContentError}

\* runContentAction: sendMessageToTab settles
runContentAction_send(t) ==
    /\ jobPc = "fanout"
    /\ tabPc[t] = "send"
    /\ \/ Settle(t, SuccessResult)
       \/ \E message \in ContentErrors(jobPlan.action) \cup {MsgNoReceiver, MsgTimedOut} :
             Catch(t, message)
    /\ UNCHANGED <<RUN_STATES, jobPc, jobRunId, jobPlan, jobTabs, jobResponse>>

\* runContentAction: delay(180) settles, the loop starts its next attempt
runContentAction_backoff(t) ==
    /\ jobPc = "fanout"
    /\ tabPc[t] = "backoff"
    /\ IF isCanceled(RUN_STATES, jobRunId)
       THEN Settle(t, ErrorResult(MsgCanceled))
       ELSE /\ tabPc' = [tabPc EXCEPT ![t] = "prepare"]
            /\ attempt' = [attempt EXCEPT ![t] = attempt[t] + 1]
            /\ caught' = [caught EXCEPT ![t] = MsgNone]
            /\ UNCHANGED results
    /\ UNCHANGED <<RUN_STATES, jobPc, jobRunId, jobPlan, jobTabs, jobResponse>>

ResultSeq == [i \in 1..Len(jobTabs) |-> [tabId |-> jobTabs[i]] @@ results[jobTabs[i]]]

\* a success count that looks at the first result only
successCount_first(rs) == IF rs[1].status = "success" THEN 1 ELSE 0

successCount(rs) == Cardinality({i \in 1..Len(rs) : rs[i].status = "success"})

\* a first error that takes the last failing tab's message
firstError_last(rs) ==
    LET withError == {i \in 1..Len(rs) : rs[i].error # MsgNone}
    IN IF withError = {} THEN MsgAllFailed
       ELSE rs[CHOOSE i \in withError : \A j \in withError : i >= j].error

\* results.find(result => result.error)?.error || 'Failed on all tabs.'
firstError(rs) ==
    LET withError == {i \in 1..Len(rs) : rs[i].error # MsgNone}
    IN IF withError = {} THEN MsgAllFailed
       ELSE rs[CHOOSE i \in withError : \A j \in withError : i <= j].error

\* Promise.all over the fan-out settles; executeAgentPlan builds its return value
aggregate ==
    /\ jobPc = "fanout"
    /\ \A t \in Range(jobTabs) : tabPc[t] = "settled"
    /\ LET rs == ResultSeq
       IN IF successCount(rs) = 0
          THEN Finish([status |-> "error", error |-> firstError(rs), results |-> rs])
          ELSE Finish([status |-> "success", error |-> MsgNone, results |-> rs])
    /\ UNCHANGED <<RUN_STATES, jobRunId, jobPlan, jobTabs, tabPc, attempt, caught, results>>

\* sendResponse: the handler invocation ends
sendResponse ==
    /\ jobPc = "done"
    /\ jobPc' = "idle"
    /\ jobRunId' = ""
    /\ jobPlan' = NoPlan
    /\ jobTabs' = <<>>
    /\ tabPc' = [t \in Tabs |-> "none"]
    /\ attempt' = [t \in Tabs |-> 0]
    /\ caught' = [t \in Tabs |-> MsgNone]
    /\ results' = [t \in Tabs |-> NoResult]
    /\ jobResponse' = NoResponse
    /\ UNCHANGED RUN_STATES

BgInit ==
    /\ RUN_STATES = [r \in RunIds |-> [present |-> FALSE, canceled |-> FALSE]]
    /\ jobPc = "idle"
    /\ jobRunId = ""
    /\ jobPlan = NoPlan
    /\ jobTabs = <<>>
    /\ tabPc = [t \in Tabs |-> "none"]
    /\ attempt = [t \in Tabs |-> 0]
    /\ caught = [t \in Tabs |-> MsgNone]
    /\ results = [t \in Tabs |-> NoResult]
    /\ jobResponse = NoResponse

\* a tab as chrome.tabs.get resolves it
Tab(url, pending, status) == [url |-> url, pendingUrl |-> pending, status |-> status]
NoTab == Tab("", "", "none")
NoDelivery == [runs |-> 0, responses |-> 0]

\* tabs at rest, showing their documents without the content script
PageIdle ==
    /\ pendingUrl = [t \in Tabs |-> ""]
    /\ tabStatus = [t \in Tabs |-> "complete"]
    /\ latestTab = [t \in Tabs |-> NoTab]
    /\ contentTab = [t \in Tabs |-> NoTab]
    /\ lastGot = [t \in Tabs |-> NoTab]
    /\ readyExit = [t \in Tabs |-> "none"]
    /\ listenerInstalled = [t \in Tabs |-> FALSE]
    /\ listeners = [t \in Tabs |-> 0]
    /\ injected = [t \in Tabs |-> 0]
    /\ delivered = NoDelivery
    /\ ran = 0

(***************************************************************************)
(* content.js (kept in src/README.md).  A text is a sequence of            *)
(* characters, so that the normalisation and the substring tests of the    *)
(* code are computed.  A field of the document is a record: its kind, its  *)
(* value, its options when it is a select, whether a form owns it, and     *)
(* its reaction, which is what the browser and the page's own input and    *)
(* change handlers make of a value that is set.  Which element a           *)
(* descriptor resolves to (findFieldElement) is an input.                  *)
(***************************************************************************)
Whitespace == {" ", "\t"}

toLowerChar(c) == CASE c = "A" -> "a" [] c = "B" -> "b" [] OTHER -> c
toUpperChar(c) == CASE c = "a" -> "A" [] c = "b" -> "B" [] OTHER -> c

toLowerCase(s) == [i \in 1..Len(s) |-> toLowerChar(s[i])]
toUpperCase(s) == [i \in 1..Len(s) |-> toUpperChar(s[i])]

\* text.replace(/\s+/g, ' '): every run of whitespace becomes one space
RECURSIVE CollapseSpaces(_)
CollapseSpaces(s) ==
    IF s = <<>> THEN <<>>
    ELSE IF Head(s) \in Whitespace
    THEN IF Len(s) > 1 /\ s[2] \in Whitespace THEN CollapseSpaces(Tail(s))
         ELSE <<" ">> \o CollapseSpaces(Tail(s))
    ELSE <<Head(s)>> \o CollapseSpaces(Tail(s))

\* String.prototype.trim
RECURSIVE TrimText(_)
TrimText(s) ==
    IF s = <<>> THEN <<>>
    ELSE IF Head(s) \in Whitespace THEN TrimText(Tail(s))
    ELSE IF s[Len(s)] \in Whitespace THEN TrimText(SubSeq(s, 1, Len(s) - 1))
    ELSE s

cleanWhitespace(s) == TrimText(CollapseSpaces(s))

normalizeText(s) == toLowerCase(cleanWhitespace(s))

\* haystack.includes(needle)
TextIncludes(haystack, needle) ==
    \E i \in 0..(Len(haystack) - Len(needle)) :
        SubSeq(haystack, i + 1, i + Len(needle)) = needle

Element(kind, value, options, react, form) ==
    [kind |-> kind, value |-> value, options |-> options, react |-> react, form |-> form]

Option(value, text) == [value |-> value, text |-> text]

\* element.value as read after the value was set and the input and change
\* events were dispatched
React(react, value) ==
    CASE react = "keep" -> value
      [] react = "upper" -> toUpperCase(value)
      [] react = "pad" -> value \o <<" ">>
      [] react = "reject" -> <<>>
      [] react = "mask" -> <<"*">>

setFieldValue(element, value, clearExisting) ==
    IF element.kind = "select"
    THEN LET target == toLowerCase(value)
             matching == {i \in 1..Len(element.options) :
                             \/ toLowerCase(element.options[i].value) = target
                             \/ TextIncludes(toLowerCase(element.options[i].text), target)}
             found == matching # {}
             option == element.options[CHOOSE i \in matching : \A j \in matching : i <= j]
             current == IF found THEN React(element.react, option.value)
                        ELSE React(element.react, element.value)
         IN [element |-> [element EXCEPT !.value = current],
             applied |-> found,
             verified |-> IF found THEN current = option.value ELSE FALSE]
    ELSE LET previousValue == IF clearExisting THEN <<>> ELSE element.value
             nextValue == previousValue \o value
             current == React(element.react, nextValue)
         IN [element |-> [element EXCEPT !.value = current],
             applied |-> TRUE,
             verified |-> normalizeText(current) = normalizeText(nextValue)]

Thrown(message) == [status |-> "error", error |-> message, submitMethod |-> ""]
Returned(submitMethod) == [status |-> "success", error |-> MsgNone, submitMethod |-> submitMethod]
NotHandled == [status |-> "none", error |-> MsgNone, submitMethod |-> ""]

\* a TYPE that reports success whatever the field reads
typeIntoField_unverified(step, fields) ==
    IF step.element = 0 THEN [response |-> Thrown(MsgInputNotFound), fields |-> fields]
    ELSE LET result == setFieldValue(fields[step.element], step.text, step.clear # "false")
             after == [fields EXCEPT ![step.element] = result.element]
         IN [response |-> Returned(""), fields |-> after]

\* typeIntoField: the response and the fields of the document afterwards
typeIntoField(step, fields) ==
    IF step.element = 0 THEN [response |-> Thrown(MsgInputNotFound), fields |-> fields]
    ELSE LET result == setFieldValue(fields[step.element], step.text, step.clear # "false")
             after == [fields EXCEPT ![step.element] = result.element]
         IN IF ~result.verified THEN [response |-> Thrown(MsgUnverified), fields |-> after]
            ELSE [response |-> Returned(""), fields |-> after]

\* a field of the document as findFieldElement sees it; a type is a text of
\* one token
DomField(name, id, label, placeholder, aria, autocomplete, type) ==
    [name |-> name, id |-> id, label |-> label, placeholder |-> placeholder, aria |-> aria,
     autocomplete |-> autocomplete, type |-> type, disabled |-> FALSE, readOnly |-> FALSE,
     visible |-> TRUE]

isFillableField(element) ==
    /\ ~element.disabled
    /\ ~element.readOnly
    /\ toLowerCase(element.type) \notin
           {<<"hidden">>, <<"button">>, <<"submit">>, <<"reset">>, <<"image">>, <<"file">>}
    /\ element.visible

exactOrContainsScore(haystack, needle, exactScore, containsScore) ==
    IF needle = <<>> THEN 0
    ELSE IF haystack = needle THEN exactScore
    ELSE IF TextIncludes(haystack, needle) THEN containsScore
    ELSE 0

\* a || b on texts
OrText(a, b) == IF a # <<>> THEN a ELSE b

scoreFieldCandidate(element, query) ==
    LET actualType == normalizeText(element.type)
    IN exactOrContainsScore(normalizeText(element.name), query.name, 30, 10)
       + exactOrContainsScore(normalizeText(element.id), query.name, 26, 8)
       + exactOrContainsScore(normalizeText(element.label), OrText(query.label, query.name),
                              28, 10)
       + exactOrContainsScore(normalizeText(element.placeholder),
                              OrText(query.placeholder, OrText(query.label, query.name)), 18, 7)
       + exactOrContainsScore(normalizeText(element.aria), OrText(query.label, query.name),
                              18, 6)
       + exactOrContainsScore(normalizeText(element.autocomplete),
                              OrText(query.name, query.label), 16, 5)
       + (IF query.type = <<>> THEN 0
          ELSE IF actualType = query.type THEN 10
          ELSE IF query.type = <<"text">>
                  /\ actualType \in {<<"search">>, <<"email">>, <<"url">>} THEN 4
          ELSE 0)

NoBest == [element |-> 0, score |-> -1]

\* a loop that takes a candidate scoring as high as the best so far
RECURSIVE BestCandidate_lastOfTies(_, _, _, _)
BestCandidate_lastOfTies(fields, query, i, best) ==
    IF i > Len(fields) THEN best
    ELSE IF ~isFillableField(fields[i]) THEN BestCandidate_lastOfTies(fields, query, i + 1, best)
    ELSE LET score == scoreFieldCandidate(fields[i], query)
         IN BestCandidate_lastOfTies(fields, query, i + 1,
                                     IF score >= best.score
                                     THEN [element |-> i, score |-> score] ELSE best)

\* findFieldElement: the loop over the fillable candidates, in document order
RECURSIVE BestCandidate(_, _, _, _)
BestCandidate(fields, query, i, best) ==
    IF i > Len(fields) THEN best
    ELSE IF ~isFillableField(fields[i]) THEN BestCandidate(fields, query, i + 1, best)
    ELSE LET score == scoreFieldCandidate(fields[i], query)
         IN BestCandidate(fields, query, i + 1,
                          IF score > best.score THEN [element |-> i, score |-> score]
                          ELSE best)

FoundField(element) == [element |-> element, threw |-> FALSE]
SelectorThrew == [element |-> 0, threw |-> TRUE]

Selected(kind, element) == [kind |-> kind, element |-> element]

\* a field descriptor of a FILL_FORM or TYPE step; hasSelector is
\* typeof descriptor.selector === 'string' && descriptor.selector.trim()
Descriptor(hasSelector, name, label, placeholder, type) ==
    [isObject |-> TRUE, hasSelector |-> hasSelector, name |-> name, label |-> label,
     placeholder |-> placeholder, type |-> type]

\* no lookup made
NoLookup == [descriptor |-> Descriptor(FALSE, <<>>, <<>>, <<>>, <<>>), fields |-> <<>>,
             selected |-> Selected("none", 0), done |-> FALSE, result |-> FoundField(0)]

\* findFieldElement.  fields are the input, textarea and select elements of
\* the document in document order; selected is what document.querySelector
\* makes of the descriptor's selector: "field" and the index of a field,
\* "other" for an element that is no field, "none" for no match, "invalid"
\* for a selector it rejects with a SyntaxError.  The result is the index of
\* the field, 0 for null.
findFieldElement(descriptor, fields, selected) ==
    IF ~descriptor.isObject THEN FoundField(0)
    ELSE IF descriptor.hasSelector /\ selected.kind = "invalid" THEN SelectorThrew
    ELSE IF /\ descriptor.hasSelector
            /\ selected.kind = "field"
            /\ isFillableField(fields[selected.element])
    THEN FoundField(selected.element)
    ELSE IF \A i \in 1..Len(fields) : ~isFillableField(fields[i]) THEN FoundField(0)
    ELSE LET query == [name |-> normalizeText(descriptor.name),
                       label |-> normalizeText(descriptor.label),
                       placeholder |-> normalizeText(descriptor.placeholder),
                       type |-> normalizeText(descriptor.type)]
             best == BestCandidate(fields, query, 1, NoBest)
         IN IF best.score <= 0 THEN FoundField(0) ELSE FoundField(best.element)

\* const filled = []; const missing = []; const verificationFailed = []
NoSets == [filled |-> <<>>, missing |-> <<>>, verificationFailed |-> <<>>]

\* a loop whose verification failure is recorded and then goes on to push
\* the field to filled
RECURSIVE FillFields_noContinue(_, _, _, _)
FillFields_noContinue(specs, fields, filled, sets) ==
    IF specs = <<>> THEN [fields |-> fields, filled |-> filled, sets |-> sets]
    ELSE LET fieldSpec == Head(specs)
         IN IF fieldSpec.element = 0
            THEN FillFields_noContinue(Tail(specs), fields, filled,
                                       [sets EXCEPT !.missing = Append(@, fieldSpec)])
            ELSE LET result == setFieldValue(fields[fieldSpec.element], fieldSpec.value, TRUE)
                     after == [fields EXCEPT ![fieldSpec.element] = result.element]
                     failed == IF result.verified THEN sets
                               ELSE [sets EXCEPT !.verificationFailed = Append(@, fieldSpec)]
                 IN FillFields_noContinue(Tail(specs), after, Append(filled, fieldSpec.element),
                                          [failed EXCEPT !.filled = Append(@, fieldSpec)])

\* what fillForm has done so far: the fields of the document, the elements
\* it filled and verified, in order, and the descriptors in its three lists
RECURSIVE FillFields(_, _, _, _)
FillFields(specs, fields, filled, sets) ==
    IF specs = <<>> THEN [fields |-> fields, filled |-> filled, sets |-> sets]
    ELSE LET fieldSpec == Head(specs)
         IN IF fieldSpec.element = 0
            THEN FillFields(Tail(specs), fields, filled,
                            [sets EXCEPT !.missing = Append(@, fieldSpec)])
            ELSE LET result == setFieldValue(fields[fieldSpec.element], fieldSpec.value, TRUE)
                     after == [fields EXCEPT ![fieldSpec.element] = result.element]
                 IN IF ~result.verified
                    THEN FillFields(Tail(specs), after, filled,
                                    [sets EXCEPT !.verificationFailed = Append(@, fieldSpec)])
                    ELSE FillFields(Tail(specs), after, Append(filled, fieldSpec.element),
                                    [sets EXCEPT !.filled = Append(@, fieldSpec)])

\* typeof submitSelector === 'string' && submitSelector.trim()
IsSelector(submitSelector) == submitSelector \notin {"absent", " "}

\* filledElements.find(element => element.form)?.form || null
HasForm(fields, filled) == \E i \in 1..Len(filled) : fields[filled[i]].form

Submitted(method) == [method |-> method, triggered |-> <<method>>]

\* a submission that clicks the submit selector's element and goes on
submitFilledForm_fallthrough(fields, filled, submitSelector, offers) ==
    LET first == IF IsSelector(submitSelector) /\ offers.selector = "visible"
                 THEN <<"submitSelector">> ELSE <<>>
        form == HasForm(fields, filled)
    IN IF form /\ offers.button = "visible"
       THEN [method |-> "formSubmitButton", triggered |-> first \o <<"formSubmitButton">>]
       ELSE IF form /\ offers.requestSubmit
       THEN [method |-> "requestSubmit", triggered |-> first \o <<"requestSubmit">>]
       ELSE IF form /\ offers.semanticInForm
       THEN [method |-> "semanticButtonInForm",
             triggered |-> first \o <<"semanticButtonInForm">>]
       ELSE IF offers.semanticGlobal
       THEN [method |-> "semanticButtonGlobal",
             triggered |-> first \o <<"semanticButtonGlobal">>]
       ELSE [method |-> IF first = <<>> THEN "none" ELSE "submitSelector", triggered |-> first]

\* submitFilledForm: the method it returns and what it triggered
submitFilledForm(fields, filled, submitSelector, offers) ==
    IF IsSelector(submitSelector) /\ offers.selector = "visible"
    THEN Submitted("submitSelector")
    ELSE LET form == HasForm(fields, filled)
         IN IF form /\ offers.button = "visible" THEN Submitted("formSubmitButton")
            ELSE IF form /\ offers.requestSubmit THEN Submitted("requestSubmit")
            ELSE IF form /\ offers.semanticInForm THEN Submitted("semanticButtonInForm")
            ELSE IF offers.semanticGlobal THEN Submitted("semanticButtonGlobal")
            ELSE [method |-> "none", triggered |-> <<>>]

\* fillForm: the response, the fields afterwards, what was triggered and
\* the three lists
fillForm(step, fields, offers) ==
    IF step.fields = <<>>
    THEN [response |-> Thrown(MsgNeedsField), fields |-> fields, triggered |-> <<>>,
          sets |-> NoSets]
    ELSE LET done == FillFields(step.fields, fields, <<>>, NoSets)
         IN IF done.filled = <<>>
            THEN [response |-> Thrown(MsgNoFields), fields |-> done.fields,
                  triggered |-> <<>>, sets |-> done.sets]
            ELSE IF step.submit
            THEN LET submission == submitFilledForm(done.fields, done.filled,
                                                    step.submitSelector, offers)
                 IN [response |-> Returned(submission.method), fields |-> done.fields,
                     triggered |-> submission.triggered, sets |-> done.sets]
            ELSE [response |-> Returned("none"), fields |-> done.fields, triggered |-> <<>>,
                  sets |-> done.sets]

\* the outline visualizePage draws: '2px solid #00c6ff'
Accent == "2px solid #00c6ff"

NoStep == [action |-> "", element |-> 0, text |-> <<>>, clear |-> "absent", fields |-> <<>>,
           submit |-> FALSE, submitSelector |-> "absent"]

\* what the document offers to submit a form: the element the submit
\* selector finds and the first submit button of the form (none, hidden or
\* visible), form.requestSubmit, and a visible button with a submit-like
\* text inside the form and anywhere in the document
Offers(selector, button, requestSubmit, semanticInForm, semanticGlobal) ==
    [selector |-> selector, button |-> button, requestSubmit |-> requestSubmit,
     semanticInForm |-> semanticInForm, semanticGlobal |-> semanticGlobal]

NoPage == Offers("none", "none", TRUE, FALSE, FALSE)

MaxElements == 2
ElementIds == 1..MaxElements

\* a document nothing has been done to
DomIdle ==
    /\ contentStep = NoStep
    /\ elements = [e \in ElementIds |-> Element("input", <<>>, <<>>, "keep", FALSE)]
    /\ page = NoPage
    /\ handled = NotHandled
    /\ triggered = <<>>
    /\ fieldSets = NoSets
    /\ lookup = NoLookup
    /\ outline = [e \in ElementIds |-> ""]
    /\ dataset = [e \in ElementIds |-> "unset"]
    /\ visible = [e \in ElementIds |-> TRUE]
    /\ timers = <<>>
    /\ calls = 0
    /\ overlapped = FALSE
    /\ original = outline

(***************************************************************************)
(* agent.js: the plan sanitizer.                                           *)
(*                                                                         *)
(* A text is modelled by its length after trimming, whether it carried     *)
(* surrounding white space, and a tag naming its content; a number by      *)
(* whether Number() makes it finite and by its value.                      *)
(***************************************************************************)
MAX_PLAN_STEPS == 20
MAX_SELECTOR_LENGTH == 320
MAX_FIELD_TEXT_LENGTH == 1200
MAX_REPLY_LENGTH == 2500

TAB_ACTIONS ==
    {"NAVIGATE", "SEARCH_YOUTUBE", "GOOGLE_SEARCH", "PLAY_MEDIA", "CLICK", "TYPE", "FILL_FORM",
     "ANALYZE_PAGE", "SCRAPE_PAGE", "VISUALIZE_PAGE", "OPEN_TAB", "SWITCH_TAB", "WAIT"}

ALLOWED_ACTIONS == TAB_ACTIONS \cup {"REPLY"}

Str(len, tag) == [str |-> TRUE, len |-> len, pad |-> FALSE, tag |-> tag]
Padded(len, tag) == [str |-> TRUE, len |-> len, pad |-> TRUE, tag |-> tag]
NotText == [str |-> FALSE, len |-> 0, pad |-> FALSE, tag |-> ""]
EmptyText == Str(0, "")

Num(n) == [finite |-> TRUE, val |-> n]
NaN == [finite |-> FALSE, val |-> 0]

Min(a, b) == IF a < b THEN a ELSE b
Max(a, b) == IF a > b THEN a ELSE b

clamp(value, min, max) == Min(max, Max(min, value))

sanitizeText(text, maxLength) ==
    IF ~text.str THEN EmptyText
    ELSE IF text.len = 0 THEN EmptyText
    ELSE Str(Min(text.len, maxLength), text.tag)

sanitizeSelector(selector) ==
    IF ~selector.str THEN EmptyText
    ELSE IF selector.len = 0 \/ selector.len > MAX_SELECTOR_LENGTH THEN EmptyText
    ELSE Str(selector.len, selector.tag)

\* sanitizeUrl on the url literals the model uses: trim, prepend https://
\* when no http(s) scheme is present, parse, keep http: and https: only
sanitizeUrl(input) ==
    CASE input = "https://example.com" -> "https://example.com/"
      [] input = "example.com" -> "https://example.com/"
      [] input = " HTTP://Shop.test/cart " -> "http://shop.test/cart"
      [] input = "https://shop.test/" -> "https://shop.test/"
      [] OTHER -> ""

\* String.prototype.toLowerCase() on the literals the model uses
ToLower(text) ==
    CASE text = "ALL" -> "all"
      [] text = "Active" -> "active"
      [] text = " Current " -> " current "
      [] text = " All " -> " all "
      [] text = "Example.com" -> "example.com"
      [] text = " Example.com " -> " example.com "
      [] text = "/Cart" -> "/cart"
      [] text = "TAB_ID" -> "tab_id"
      [] text = "Domain" -> "domain"
      [] text = "URL_contains" -> "url_contains"
      [] OTHER -> text

\* String.prototype.trim() on the literals the model uses
Trim(text) ==
    CASE text = " current " -> "current"
      [] text = " all " -> "all"
      [] text = " example.com " -> "example.com"
      [] text = " Example.com " -> "Example.com"
      [] text = "   " -> ""
      [] OTHER -> text

HasDot(text) == text \in {"example.com", "shop.test", "two words.com"}
HasSpace(text) == text \in {"some tabs", "two words.com"}

\* raw targets: kind is the JavaScript type of the value
\* and hasValue whether target.value is neither null nor undefined
RawTarget(kind, text, mode, value, hasValue, number, tabId) ==
    [kind |-> kind, text |-> text, mode |-> mode, value |-> value, hasValue |-> hasValue,
     number |-> number, tabId |-> tabId]
AbsentTarget == RawTarget("absent", "", "", NotAString, FALSE, NaN, NaN)
StringTarget(text) == RawTarget("string", text, "", NotAString, FALSE, NaN, NaN)
NumberTarget == RawTarget("number", "", "", NotAString, FALSE, NaN, NaN)
ObjectTarget(mode, value) == RawTarget("object", "", mode, value, TRUE, NaN, NaN)
TabValueTarget(mode, number) == RawTarget("object", "", mode, NotAString, TRUE, number, NaN)
TabIdTarget(mode, tabId) == RawTarget("object", "", mode, NotAString, FALSE, NaN, tabId)

normalizeTarget(target, fallback) ==
    LET fallbackTarget == IF fallback.mode = "none" THEN TargetActive ELSE fallback
    IN CASE target.kind = "absent" -> fallbackTarget
         [] target.kind = "string" ->
              LET normalized == Trim(ToLower(target.text))
              IN IF normalized = "" THEN fallbackTarget
                 ELSE IF normalized = "all" THEN TargetAll
                 ELSE IF normalized \in {"active", "current"} THEN TargetActive
                 ELSE IF HasDot(normalized) /\ ~HasSpace(normalized)
                      THEN [mode |-> "domain", tabId |-> 0, value |-> normalized]
                 ELSE fallbackTarget
         [] target.kind = "object" ->
              LET mode == ToLower(target.mode)
                  number == IF target.hasValue THEN target.number ELSE target.tabId
                  value == IF target.value = NotAString THEN ""
                           ELSE ToLower(Trim(target.value))
              IN IF mode \in {"all", "active"} THEN [mode |-> mode, tabId |-> 0, value |-> ""]
                 ELSE IF mode = "tab_id" /\ number.finite /\ number.val > 0
                      THEN [mode |-> "tab_id", tabId |-> number.val, value |-> ""]
                 ELSE IF mode \in {"url_contains", "domain"} /\ value # ""
                      THEN [mode |-> mode, tabId |-> 0, value |-> value]
                 ELSE fallbackTarget
         [] OTHER -> fallbackTarget

\* the raw target a locally built plan passes: the default Target Spec itself
AsRawTarget(target) ==
    IF target.mode = "none" THEN AbsentTarget
    ELSE IF target.mode = "tab_id" THEN TabValueTarget("tab_id", Num(target.tabId))
    ELSE ObjectTarget(target.mode, target.value)

\* a plan that is not an array
NoCandidate == [isArray |-> FALSE, items |-> <<>>]

\* raw form fields and raw steps; obj is false for null and non-object values
RawField(obj, value, name, type) ==
    [obj |-> obj, value |-> value, name |-> name, type |-> type, label |-> NotText,
     placeholder |-> NotText]

sanitizeFormField(field) ==
    IF ~field.obj THEN <<>>
    ELSE LET value == sanitizeText(field.value, MAX_FIELD_TEXT_LENGTH)
         IN IF value = EmptyText THEN <<>>
            ELSE <<[value |-> value,
                    name |-> sanitizeText(field.name, 120),
                    label |-> sanitizeText(field.label, 120),
                    placeholder |-> sanitizeText(field.placeholder, 120),
                    type |-> sanitizeText(field.type, 32)]>>

RECURSIVE sanitizeFormFields(_)
\* fields.map(sanitizeFormField).filter(Boolean)
sanitizeFormFields(fields) ==
    IF fields = <<>> THEN <<>>
    ELSE sanitizeFormField(Head(fields)) \o sanitizeFormFields(Tail(fields))

Slice(s, n) == SubSeq(s, 1, Min(n, Len(s)))

RawStep(action) ==
    [obj |-> TRUE, action |-> action, target |-> AbsentTarget, url |-> NotAString,
     tabId |-> NaN, message |-> NotText, query |-> NotText, text |-> NotText,
     selector |-> NotText, isArray |-> FALSE, fields |-> <<>>, submit |-> FALSE, num |-> NaN]

NotAnObject == [RawStep(NotAString) EXCEPT !.obj = FALSE]

Step(action, target) ==
    [action |-> action, target |-> target, url |-> "", tabId |-> 0, message |-> EmptyText,
     query |-> EmptyText, text |-> EmptyText, selector |-> EmptyText, fields |-> <<>>,
     submit |-> FALSE, num |-> 0]

\* the body of sanitizePlan's loop: the sanitized step, or nothing
sanitizeStep(rawStep, fallback) ==
    IF ~rawStep.obj THEN <<>>
    ELSE
    LET action == IF rawStep.action = NotAString THEN "" ELSE TrimUpper(rawStep.action)
        step == Step(action, IF action \in TAB_ACTIONS
                             THEN normalizeTarget(rawStep.target, fallback)
                             ELSE NoTarget)
    IN IF action \notin ALLOWED_ACTIONS THEN <<>>
       ELSE CASE action = "REPLY" ->
                   LET message == sanitizeText(rawStep.message, MAX_REPLY_LENGTH)
                   IN IF message = EmptyText THEN <<>>
                      ELSE <<[step EXCEPT !.message = message]>>
              [] action \in {"NAVIGATE", "OPEN_TAB"} ->
                   LET url == sanitizeUrl(rawStep.url)
                   IN IF url = "" THEN <<>> ELSE <<[step EXCEPT !.url = url]>>
              [] action = "SWITCH_TAB" ->
                   IF ~rawStep.tabId.finite \/ rawStep.tabId.val <= 0 THEN <<>>
                   ELSE <<[step EXCEPT !.tabId = rawStep.tabId.val]>>
              [] action \in {"GOOGLE_SEARCH", "SEARCH_YOUTUBE"} ->
                   LET query == sanitizeText(rawStep.query, 280)
                   IN IF query = EmptyText THEN <<>>
                      ELSE <<[step EXCEPT !.query = query]>>
              [] action \in {"PLAY_MEDIA", "VISUALIZE_PAGE"} -> <<step>>
              [] action = "CLICK" ->
                   LET selector == sanitizeSelector(rawStep.selector)
                       text == sanitizeText(rawStep.text, 180)
                   IN IF selector = EmptyText /\ text = EmptyText THEN <<>>
                      ELSE <<[step EXCEPT !.selector = selector, !.text = text]>>
              [] action = "TYPE" ->
                   LET selector == sanitizeSelector(rawStep.selector)
                       text == sanitizeText(rawStep.text, MAX_FIELD_TEXT_LENGTH)
                   IN IF selector = EmptyText \/ text = EmptyText THEN <<>>
                      ELSE <<[step EXCEPT !.selector = selector, !.text = text]>>
              [] action = "FILL_FORM" ->
                   IF ~rawStep.isArray THEN <<>>
                   ELSE LET fields == Slice(sanitizeFormFields(rawStep.fields), 12)
                        IN IF fields = <<>> THEN <<>>
                           ELSE <<[step EXCEPT !.fields = fields, !.submit = rawStep.submit]>>
              [] action = "ANALYZE_PAGE" ->
                   <<[step EXCEPT !.num =
                        clamp(IF rawStep.num.finite /\ rawStep.num.val # 0
                              THEN rawStep.num.val ELSE 3000, 600, 9000)]>>
              [] action = "SCRAPE_PAGE" ->
                   <<[step EXCEPT !.num =
                        clamp(IF rawStep.num.finite /\ rawStep.num.val # 0
                              THEN rawStep.num.val ELSE 5000, 800, 15000)]>>
              [] action = "WAIT" ->
                   <<[step EXCEPT !.num =
                        clamp(IF rawStep.num.finite /\ rawStep.num.val # 0
                              THEN rawStep.num.val ELSE 800, 80, 20000)]>>
              [] OTHER -> <<>>

ReplyStep(tag) == [Step("REPLY", NoTarget) EXCEPT !.message = Str(30, tag)]

RECURSIVE sanitizeSteps(_, _)
sanitizeSteps(rawSteps, fallback) ==
    IF rawSteps = <<>> THEN <<>>
    ELSE sanitizeStep(Head(rawSteps), fallback) \o sanitizeSteps(Tail(rawSteps), fallback)

\* sanitizePlan without the REPLY it returns when no step is left
sanitizePlan_noFallback(rawPlan, fallback) ==
    IF ~rawPlan.isArray THEN <<ReplyStep("Invalid plan format.")>>
    ELSE sanitizeSteps(Slice(rawPlan.items, MAX_PLAN_STEPS), fallback)

\* sanitizePlan that cuts to MAX_PLAN_STEPS one step too late
sanitizePlan_offByOne(rawPlan, fallback) ==
    IF ~rawPlan.isArray THEN <<ReplyStep("Invalid plan format.")>>
    ELSE LET sanitized == sanitizeSteps(Slice(rawPlan.items, MAX_PLAN_STEPS + 1), fallback)
         IN IF sanitized = <<>>
            THEN <<ReplyStep("I could not build a safe action plan for this request.")>>
            ELSE sanitized

sanitizePlan(rawPlan, fallback) ==
    IF ~rawPlan.isArray THEN <<ReplyStep("Invalid plan format.")>>
    ELSE LET sanitized == sanitizeSteps(Slice(rawPlan.items, MAX_PLAN_STEPS), fallback)
         IN IF sanitized = <<>>
            THEN <<ReplyStep("I could not build a safe action plan for this request.")>>
            ELSE sanitized

(***************************************************************************)
(* agent.js: processAgentCommand.  Every operator below is the code that   *)
(* runs, without yielding, after an awaited promise settles; it maps the   *)
(* locals of processAgentCommand to their values at the next await.        *)
(* stop is stopRequested and aborted is signal.aborted at that moment.     *)
(***************************************************************************)
LOW_RISK_ACTIONS ==
    {"ANALYZE_PAGE", "SCRAPE_PAGE", "VISUALIZE_PAGE", "GOOGLE_SEARCH", "SEARCH_YOUTUBE",
     "PLAY_MEDIA", "WAIT"}

MsgPlannerFailed == "Failed to fetch"
MsgAgentFailed == "Agent execution failed"

Error(name, message) == [name |-> name, message |-> message]
AbortError == Error("AbortError", MsgAbort)
NoError == Error("", MsgNone)

\* how an awaited promise settled
Resolved == [ok |-> TRUE, error |-> NoError]
Rejected(error) == [ok |-> FALSE, error |-> error]

NoMessage == [type |-> "", runId |-> "", plan |-> NoPlan]
Execute(planStep, runId) == [type |-> "EXECUTE_AGENT_PLAN", runId |-> runId, plan |-> planStep]
Cancel(runId) == [type |-> "CANCEL_AGENT_RUN", runId |-> runId, plan |-> NoPlan]

\* new URL(url).hostname.toLowerCase() on the urls the model uses
Hostname(url) ==
    CASE url = "https://example.com/" -> "example.com"
      [] url = "http://shop.test/cart" -> "shop.test"
      [] url = "https://shop.test/" -> "shop.test"
      [] OTHER -> ""

getHostFromStep(step) == Hostname(step.url)

\* getActiveHost over the snapshot getTabSnapshot returns: restricted urls
\* are reported as restricted://, which has no host
getActiveHost(snapshotOk) ==
    IF ~snapshotOk \/ isRestrictedUrl(tabUrl[1]) THEN "" ELSE Hostname(tabUrl[1])

\* /submit|sign\s?in|login|register|sign\s?up|checkout|pay|continue/i
MatchesSubmit(text) == text.tag \in {"#submit", "Sign in"}

\* /password|passcode|token|otp|secret|api key|apikey/i on a text
MatchesSensitive(text) ==
    text.tag \in {"password", "passcode", "token", "otp", "secret", "api key", "apikey"}

\* the test on the descriptor: name, label, type and placeholder
containsSensitiveField(step) ==
    \E i \in 1..Len(step.fields) :
        \/ MatchesSensitive(step.fields[i].name)
        \/ MatchesSensitive(step.fields[i].label)
        \/ MatchesSensitive(step.fields[i].type)
        \/ MatchesSensitive(step.fields[i].placeholder)

containsAuthIntent(text) == text.auth

\* a classification that takes an unknown current host for a different one
classifyStepRisk_unknownHost(step, text, host) ==
    CASE step.action \in LOW_RISK_ACTIONS -> "low"
      [] step.action \in {"NAVIGATE", "OPEN_TAB"} ->
            IF getHostFromStep(step) # "" /\ getHostFromStep(step) # host
            THEN "high" ELSE "medium"
      [] step.action = "FILL_FORM" ->
            IF step.submit \/ containsAuthIntent(text) \/ containsSensitiveField(step)
            THEN "high" ELSE "medium"
      [] step.action = "CLICK" ->
            IF MatchesSubmit(step.selector) \/ MatchesSubmit(step.text)
            THEN "high" ELSE "medium"
      [] step.action = "TYPE" -> IF containsAuthIntent(text) THEN "high" ELSE "medium"
      [] OTHER -> "medium"

classifyStepRisk(step, text, host) ==
    CASE step.action \in LOW_RISK_ACTIONS -> "low"
      [] step.action \in {"NAVIGATE", "OPEN_TAB"} ->
            IF getHostFromStep(step) # "" /\ host # "" /\ getHostFromStep(step) # host
            THEN "high" ELSE "medium"
      [] step.action = "FILL_FORM" ->
            IF step.submit \/ containsAuthIntent(text) \/ containsSensitiveField(step)
            THEN "high" ELSE "medium"
      [] step.action = "CLICK" ->
            IF MatchesSubmit(step.selector) \/ MatchesSubmit(step.text)
            THEN "high" ELSE "medium"
      [] step.action = "TYPE" -> IF containsAuthIntent(text) THEN "high" ELSE "medium"
      [] OTHER -> "medium"

isAbortError(error) == error.name = "AbortError" \/ Includes(error.message, "canceled")

\* shouldAttemptRecovery that leaves the action kind out
shouldAttemptRecovery_anyAction(step, message) ==
    message # MsgNone

shouldAttemptRecovery(step, message) ==
    /\ step.action \in {"CLICK", "TYPE", "FILL_FORM"}
    /\ \/ Includes(message, "element not found")
       \/ Includes(message, "could not find element")
       \/ Includes(message, "input not found")
       \/ Includes(message, "no form fields matched")

\* the locals of a run that has not started
NoRun ==
    [pc |-> "idle", index |-> 0, successCount |-> 0, skippedCount |-> 0, failureCount |-> 0,
     currentHost |-> "", risk |-> "", approval |-> "", recoveryError |-> MsgNone,
     appended |-> {}, thrown |-> MsgNone, dispatches |-> 0, analyses |-> 0,
     planningCalls |-> 0, send |-> NoMessage]

\* an outer catch that swallows the error and leaves the run waiting
OuterCatch_resume(r, error, stop) == r

\* the outer catch of processAgentCommand
OuterCatch(r, error, stop) ==
    IF isAbortError(error) \/ stop
    THEN [r EXCEPT !.pc = "stopped", !.appended = @ \cup {"Process stopped."}]
    ELSE [r EXCEPT !.pc = "failed", !.thrown = MsgAgentFailed]

\* the end of the step loop: the run summary
Summary(r) == [r EXCEPT !.pc = "summary", !.appended = @ \cup {"Run summary"}]

\* the catch of the step's try without its break: the loop goes on to the delay
InnerCatch_noBreak(r, error) ==
    [r EXCEPT !.failureCount = @ + 1, !.appended = @ \cup {"I could not complete"},
              !.pc = "delay"]

\* the catch of the step's try: the step failed, the loop breaks
InnerCatch(r, error) ==
    Summary([r EXCEPT !.failureCount = @ + 1,
                      !.appended = @ \cup {"I could not complete"}])

\* sendCommandToBackground: with an aborted signal the promise rejects at
\* once, and each caller's rejection path ends in the catch of the step's
\* try; otherwise the message leaves and the caller awaits the response at pc
Send(r, pc, planStep, aborted) ==
    IF aborted THEN InnerCatch(r, AbortError)
    ELSE [r EXCEPT !.pc = pc, !.send = Execute(planStep, currentRunId),
                   !.dispatches = IF pc = "analysis" THEN @ ELSE @ + 1,
                   !.analyses = IF pc = "analysis" THEN @ + 1 ELSE @]

\* a step loop that sends the step and goes on to the delay without awaiting
\* the response
StartStep_noAwait(r, p, aborted) ==
    LET sent == Send(r, "dispatch", p[r.index], aborted)
    IN IF sent.pc = "dispatch" THEN [sent EXCEPT !.pc = "delay"] ELSE sent

\* executeStepWithRecovery up to its first await
StartStep(r, p, aborted) == Send(r, "dispatch", p[r.index], aborted)

\* the step succeeded; cancellableDelay up to its first await, or the end
\* of the loop
StepSucceeded(r, p, stop, aborted) ==
    LET nextHost == getHostFromStep(p[r.index])
        done == [r EXCEPT !.successCount = @ + 1,
                          !.currentHost = IF nextHost # "" THEN nextHost ELSE @]
    IN IF r.index < Len(p)
       THEN IF stop \/ aborted THEN OuterCatch(done, AbortError, stop \/ aborted)
            ELSE [done EXCEPT !.pc = "delay"]
       ELSE Summary(done)

\* the first dispatch of a step settled
After_dispatch(r, p, outcome, stop, aborted) ==
    IF outcome.ok THEN StepSucceeded(r, p, stop, aborted)
    ELSE IF ~shouldAttemptRecovery(p[r.index], outcome.error.message)
    THEN InnerCatch(r, outcome.error)
    ELSE IF stop \/ aborted THEN InnerCatch(r, AbortError)
    ELSE Send([r EXCEPT !.recoveryError = outcome.error.message], "analysis",
              [Step("ANALYZE_PAGE", p[r.index].target) EXCEPT !.num = 1200], aborted)

\* the recovery analysis settled, whatever its outcome
After_analysis(r, p, outcome, stop, aborted) ==
    IF stop \/ aborted THEN InnerCatch(r, AbortError)
    ELSE Send(r, "retry", p[r.index], aborted)

\* the recovery retry settled
After_retry(r, p, outcome, stop, aborted) ==
    IF outcome.ok THEN StepSucceeded(r, p, stop, aborted)
    ELSE InnerCatch(r, outcome.error)

RECURSIVE loop(_, _, _)
\* the step loop from the top of iteration r.index to the next await
loop(r, p, stop) ==
    IF r.index > Len(p) THEN Summary(r)
    ELSE IF stop THEN OuterCatch(r, AbortError, stop)
    ELSE LET step == p[r.index]
             level == classifyStepRisk(step, prompt, r.currentHost)
             fresh == [r EXCEPT !.risk = level, !.approval = "", !.recoveryError = MsgNone,
                                !.dispatches = 0, !.analyses = 0]
         IN IF step.action = "REPLY"
            THEN loop([fresh EXCEPT !.index = @ + 1, !.successCount = @ + 1,
                                    !.appended = @ \cup {"reply"}], p, stop)
            ELSE IF level = "high"
            THEN [fresh EXCEPT !.pc = "approval"]
            ELSE StartStep(fresh, p, FALSE)

\* requestApprovalIfNeeded that proceeds whatever the answer
After_approval_anyAnswer(r, p, result, stop, aborted) ==
    StartStep([r EXCEPT !.approval = result], p, aborted)

\* an approval gate that ends the run when the answer is not an approval
After_approval_abortOnDeny(r, p, result, stop, aborted) ==
    IF result # "approved"
    THEN Summary([r EXCEPT !.approval = result, !.skippedCount = @ + 1])
    ELSE StartStep([r EXCEPT !.approval = result], p, aborted)

\* an approval gate that counts the step as skipped and dispatches it all the same
After_approval_skipAndRun(r, p, result, stop, aborted) ==
    IF result # "approved"
    THEN StartStep([r EXCEPT !.approval = result, !.skippedCount = @ + 1], p, aborted)
    ELSE StartStep([r EXCEPT !.approval = result], p, aborted)

\* requestApprovalIfNeeded returned
After_approval(r, p, result, stop, aborted) ==
    IF result # "approved"
    THEN loop([r EXCEPT !.approval = result, !.index = @ + 1, !.skippedCount = @ + 1],
              p, stop \/ aborted)
    ELSE StartStep([r EXCEPT !.approval = result], p, aborted)

\* a turn of cancellableDelay's loop, then the next iteration of the steps
After_delay(r, p, stop, aborted) ==
    IF stop \/ aborted THEN OuterCatch(r, AbortError, stop \/ aborted)
    ELSE loop([r EXCEPT !.index = @ + 1], p, stop \/ aborted)

\* maybeBuildDeterministicPlan and maybeBuildFastPlan read the command
maybeBuildDeterministicPlan(text, target) ==
    IF text.planner # "deterministic" THEN NoCandidate
    ELSE [isArray |-> TRUE,
          items |-> <<[RawStep("NAVIGATE") EXCEPT !.url = "https://shop.test/",
                                                  !.target = AsRawTarget(target)]>>]

maybeBuildFastPlan(text, target) ==
    IF text.planner # "fast" THEN NoCandidate
    ELSE [isArray |-> TRUE,
          items |-> <<[RawStep("NAVIGATE") EXCEPT !.url = "https://shop.test/",
                                                  !.target = AsRawTarget(target)],
                      [RawStep("ANALYZE_PAGE") EXCEPT !.num = Num(2500),
                                                      !.target = AsRawTarget(target)],
                      [RawStep("FILL_FORM") EXCEPT
                          !.isArray = TRUE,
                          !.fields = <<RawField(TRUE, Str(16, "email"), Str(5, "email"),
                                                Str(5, "email")),
                                       RawField(TRUE, Str(12, "secret"), Str(8, "password"),
                                                Str(8, "password"))>>,
                          !.submit = TRUE,
                          !.target = AsRawTarget(target)]>>]

\* the candidate plan processAgentCommand hands to sanitizePlan
PlanSource(text, target, plannerPlan) ==
    IF maybeBuildDeterministicPlan(text, target) # NoCandidate
    THEN maybeBuildDeterministicPlan(text, target)
    ELSE IF maybeBuildFastPlan(text, target) # NoCandidate
    THEN maybeBuildFastPlan(text, target)
    ELSE plannerPlan

\* from the plan builders to the first await of the step loop
Planning(r, stop, aborted) ==
    IF prompt.planner # "llm"
    THEN loop([r EXCEPT !.index = 1], sanitizePlan(candidate, defaultTarget), stop \/ aborted)
    ELSE IF aborted THEN OuterCatch(r, AbortError, TRUE)
    ELSE [r EXCEPT !.pc = "llm", !.planningCalls = @ + 1]

\* tryGetTabSnapshot returned; tryGetPageContextIfNeeded up to its await
After_snapshot(r, outcome, stop, aborted) ==
    LET hosted == [r EXCEPT !.currentHost = getActiveHost(outcome.ok)]
    IN IF prompt.needsContext /\ ~aborted THEN [hosted EXCEPT !.pc = "context"]
       ELSE Planning(hosted, stop, aborted)

\* tryGetPageContextIfNeeded returned, whatever its outcome
After_context(r, outcome, stop, aborted) == Planning(r, stop, aborted)

\* a planning phase that calls the model again when the call failed
After_llm_retry(r, outcome, stop, aborted) ==
    IF ~outcome.ok /\ ~(stop \/ aborted)
    THEN [r EXCEPT !.pc = "llm", !.planningCalls = @ + 1]
    ELSE IF ~outcome.ok THEN OuterCatch(r, outcome.error, stop \/ aborted)
    ELSE IF stop \/ aborted THEN OuterCatch(r, AbortError, TRUE)
    ELSE loop([r EXCEPT !.index = 1], sanitizePlan(candidate, defaultTarget), FALSE)

\* generateChatResponse settled
After_llm(r, outcome, stop, aborted) ==
    IF ~outcome.ok THEN OuterCatch(r, outcome.error, stop \/ aborted)
    ELSE IF stop \/ aborted THEN OuterCatch(r, AbortError, TRUE)
    ELSE loop([r EXCEPT !.index = 1], sanitizePlan(candidate, defaultTarget), FALSE)

(***************************************************************************)
(* sidepanel.js and the message channel to the service worker.  An action  *)
(* is one event of the side panel (a click, a timer, a response callback)  *)
(* together with the continuation of processAgentCommand it wakes.         *)
(***************************************************************************)
Terminal(pc) == pc \in {"summary", "stopped", "failed"}

\* chat mode with an empty input box and nothing under way
NoChat ==
    [input |-> "empty", apiKey |-> FALSE, needsKey |-> FALSE, started |-> 0, handlers |-> <<>>,
     controller |-> 0, userMsgs |-> 0]

\* no approval card has been appended
NoCard ==
    [open |-> FALSE, step |-> 0, settled |-> FALSE, timer |-> FALSE, disabled |-> FALSE,
     timeoutMs |-> 0, results |-> <<>>]

\* riskInfo.timeoutMs of classifyStepRisk, 0 where it sets none
riskTimeoutMs(step, text, host) ==
    IF step.action = "FILL_FORM" THEN 30000
    ELSE IF classifyStepRisk(step, text, host) = "high" THEN 25000
    ELSE 0

\* the timeout of the card: riskInfo.timeoutMs || 20000 in
\* requestApprovalIfNeeded, then Number(riskInfo.timeoutMs) > 0 ? ... : 20000
approvalTimeout(step, text, host) ==
    LET safe == IF riskTimeoutMs(step, text, host) # 0 THEN riskTimeoutMs(step, text, host)
                ELSE 20000
    IN IF safe > 0 THEN safe ELSE 20000

\* requestActionApproval while the run is processing: the card of the step,
\* its two buttons enabled and its timer set
requestActionApproval(step, timeoutMs) ==
    [open |-> TRUE, step |-> step, settled |-> FALSE, timer |-> TRUE, disabled |-> FALSE,
     timeoutMs |-> timeoutMs, results |-> <<>>]

\* a finish without the settled flag, that leaves the timer and the buttons
finish_unsettled(c, result) == [c EXCEPT !.results = Append(@, result)]

\* a finish that settles the card and never calls resolve
finish_mute(c, result) ==
    IF c.settled THEN c ELSE [c EXCEPT !.settled = TRUE, !.timer = FALSE, !.disabled = TRUE]

\* finish of requestActionApproval; results lists what it passed to resolve
finish(c, result) ==
    IF c.settled THEN c
    ELSE [c EXCEPT !.settled = TRUE, !.timer = FALSE, !.disabled = TRUE,
                   !.results = Append(@, result)]

\* the state of the side panel and of the run after an event: stop and
\* aborted are the flags the event leaves, first the messages it sent
\* itself; a run that ended goes through the catch and finally of
\* handleSendMessage, which ends in updateProcessingUI(false)
BecomeWith(next, first, stop, aborted, answered) ==
    \E to \in {next} :
        /\ run' = [to EXCEPT !.send = NoMessage,
                             !.appended = IF to.pc = "failed" THEN @ \cup {"Error"} ELSE @]
        /\ outbox' = outbox \o first \o (IF to.send = NoMessage THEN <<>> ELSE <<to.send>>)
        /\ pendingApprovalResolver' = (to.pc = "approval")
        /\ planned' = (to.index >= 1)
        /\ plan' = IF to.index >= 1 /\ ~planned THEN sanitizePlan(candidate, defaultTarget)
                   ELSE plan
        /\ card' = IF to.pc = "approval" /\ (run.pc # "approval" \/ to.index # run.index)
                   THEN requestActionApproval(to.index,
                                              approvalTimeout(plan'[to.index], prompt,
                                                              to.currentHost))
                   ELSE answered
        /\ IF Terminal(to.pc)
           THEN /\ isProcessing' = FALSE
                /\ stopRequested' = FALSE
                /\ signalAborted' = FALSE
                /\ currentRunId' = ""
           ELSE /\ isProcessing' = TRUE
                /\ stopRequested' = stop
                /\ signalAborted' = aborted
                /\ UNCHANGED currentRunId
        /\ UNCHANGED <<prompt, candidate, defaultTarget, plannerVars, chat>>

\* a slice of the run that no approval card takes part in
Become(next, first, stop, aborted) == BecomeWith(next, first, stop, aborted, card)

\* handleSendMessage in agent mode, up to the first await of processAgentCommand
handleSendMessage(runId) ==
    /\ ~isProcessing
    /\ run.pc = "idle"
    /\ run' = [NoRun EXCEPT !.pc = "snapshot"]
    /\ isProcessing' = TRUE
    /\ stopRequested' = FALSE
    /\ signalAborted' = FALSE
    /\ currentRunId' = runId
    /\ UNCHANGED <<prompt, candidate, defaultTarget, plan, planned, plannerVars,
                   pendingApprovalResolver, outbox, cancelRequested, card, chat>>

\* an abort that rejects no pending call: only the approval card is answered
Canceled_cooperative(r, p) ==
    IF r.pc = "approval" THEN After_approval(r, p, "canceled", TRUE, TRUE) ELSE r

\* what the abort of the signal and the canceled approval wake in the run
Canceled(r, p) ==
    CASE r.pc = "approval" -> After_approval(r, p, "canceled", TRUE, TRUE)
      [] r.pc = "snapshot" /\ ~signalAborted ->
            After_snapshot(r, Rejected(AbortError), TRUE, TRUE)
      [] r.pc = "context" /\ ~signalAborted ->
            After_context(r, Rejected(AbortError), TRUE, TRUE)
      [] r.pc = "llm" /\ ~signalAborted -> After_llm(r, Rejected(AbortError), TRUE, TRUE)
      [] r.pc = "dispatch" /\ ~signalAborted ->
            After_dispatch(r, p, Rejected(AbortError), TRUE, TRUE)
      [] r.pc = "analysis" /\ ~signalAborted ->
            After_analysis(r, p, Rejected(AbortError), TRUE, TRUE)
      [] r.pc = "retry" /\ ~signalAborted ->
            After_retry(r, p, Rejected(AbortError), TRUE, TRUE)
      [] OTHER -> r

\* handleSendButtonClick while processing: stopCurrentProcess
stopCurrentProcess ==
    /\ isProcessing
    /\ Len(outbox) < MaxOutbox
    /\ cancelRequested' = TRUE
    /\ BecomeWith(Canceled(run, plan), <<Cancel(currentRunId)>>, TRUE, TRUE,
                  IF pendingApprovalResolver THEN finish(card, "canceled") ELSE card)

\* the responses to GET_TAB_SNAPSHOT and GET_PAGE_CONTEXT
SnapshotReply ==
    /\ run.pc = "snapshot"
    /\ \E outcome \in {Resolved, Rejected(Error("Error", MsgNoReceiver))} :
          Become(After_snapshot(run, outcome, stopRequested, signalAborted), <<>>,
                 stopRequested, signalAborted)
    /\ UNCHANGED cancelRequested

ContextReply ==
    /\ run.pc = "context"
    /\ Become(After_context(run, Resolved, stopRequested, signalAborted), <<>>,
              stopRequested, signalAborted)
    /\ UNCHANGED cancelRequested

\* the planner's fetch settles
PlannerReply ==
    /\ run.pc = "llm"
    /\ \E outcome \in {Resolved, Rejected(Error("TypeError", MsgPlannerFailed))} :
          Become(After_llm(run, outcome, stopRequested, signalAborted), <<>>,
                 stopRequested, signalAborted)
    /\ UNCHANGED cancelRequested

\* requestActionApproval: a click on a button of the card, or its timer.  A
\* disabled button dispatches no click; the promise takes the first result
\* passed to resolve, and that one resumes the run.
CardEvent(result) ==
    /\ card.open
    /\ result = "timeout" => card.timer
    /\ LET after == IF result # "timeout" /\ card.disabled THEN card ELSE finish(card, result)
       IN IF card.results = <<>> /\ after.results # <<>>
          THEN BecomeWith(After_approval(run, plan, result, stopRequested, signalAborted),
                          <<>>, stopRequested, signalAborted, after)
          ELSE /\ card' = after
               /\ UNCHANGED <<prompt, run, isProcessing, stopRequested, signalAborted,
                              pendingApprovalResolver, currentRunId, outbox, planVars>>
    /\ UNCHANGED <<cancelRequested, chat>>

ApprovalAnswer == \E result \in {"approved", "denied", "timeout"} : CardEvent(result)

\* the timer fires and neither cancellableDelay nor the loop looks at the flags
DelayTick_unchecked ==
    /\ run.pc = "delay"
    /\ Become(After_delay(run, plan, FALSE, FALSE), <<>>, stopRequested, FALSE)
    /\ UNCHANGED cancelRequested

\* the timer of cancellableDelay fires after the delay has elapsed
DelayTick ==
    /\ run.pc = "delay"
    /\ Become(After_delay(run, plan, stopRequested, signalAborted), <<>>,
              stopRequested, signalAborted)
    /\ UNCHANGED cancelRequested

\* the callback of sendRuntimeMessage for the response the worker sent
ResponseOutcome(response) ==
    IF response.status = "error" THEN Rejected(Error("Error", response.error)) ELSE Resolved

Awaited(r, p, outcome, stop, aborted) ==
    CASE r.pc = "dispatch" -> After_dispatch(r, p, outcome, stop, aborted)
      [] r.pc = "analysis" -> After_analysis(r, p, outcome, stop, aborted)
      [] r.pc = "retry" -> After_retry(r, p, outcome, stop, aborted)
      [] OTHER -> r

UrlPool == {"https://example.com/", "chrome://settings"}

(***************************************************************************)
(* SpecBg: the background service worker as an open component.  Any        *)
(* extension context may deliver EXECUTE_AGENT_PLAN and CANCEL_AGENT_RUN   *)
(* messages with any run id.                                               *)
(***************************************************************************)
\* the run whose steps are dispatched; cancellations arrive for every run id
ObservedRun == "run-1"

BgPlans ==
    {[action |-> a, target |-> NoTarget] : a \in {"wait ", "OPEN_TAB", "REPLY", NotAString}}
    \cup {[action |-> "NAVIGATE", target |-> tg] : tg \in {TargetActive, TargetDomain}}
    \cup {[action |-> "click", target |-> TargetAll]}
    \cup {[action |-> "ANALYZE_PAGE", target |-> TargetTab(MaxTabs + 1)]}

ReceiveExecute ==
    /\ \E rawPlan \in BgPlans : executeAgentPlan(rawPlan, ObservedRun)
    /\ UNCHANGED <<browserVars, planVars, panelVars>>

ReceiveCancel ==
    /\ \E runId \in RunIds : cancelAgentRun(runId)
    /\ UNCHANGED <<browserVars, planVars, panelVars, jobPc, jobRunId, jobPlan, jobTabs, tabPc,
                   attempt, caught, results, jobResponse>>

\* no planner response has been read
PlannerIdle ==
    /\ rawResponse = <<>>
    /\ todos = <<>>
    /\ shown = <<>>

PlanIdle ==
    /\ candidate = NoCandidate
    /\ defaultTarget = TargetActive
    /\ plan = <<>>
    /\ planned = FALSE
    /\ PlannerIdle

NoPrompt == [planner |-> "llm", needsContext |-> FALSE, auth |-> FALSE]

PanelIdle ==
    /\ prompt = NoPrompt
    /\ run = NoRun
    /\ isProcessing = FALSE
    /\ stopRequested = FALSE
    /\ signalAborted = FALSE
    /\ pendingApprovalResolver = FALSE
    /\ currentRunId = ""
    /\ outbox = <<>>
    /\ cancelRequested = FALSE
    /\ card = NoCard
    /\ chat = NoChat

InitBg ==
    /\ BgInit
    /\ PageIdle
    /\ DomIdle
    /\ PlanIdle
    /\ PanelIdle
    /\ openTabs \in 1..MaxTabs
    /\ tabUrl \in [Tabs -> UrlPool]
    /\ \A t \in Tabs : t > openTabs => tabUrl[t] = "chrome://settings"

\* a step of the worker leaves the side panel alone
Worker(step) == step /\ UNCHANGED <<browserVars, planVars, panelVars>>

NextBg ==
    \/ ReceiveExecute
    \/ ReceiveCancel
    \/ Worker(waitWithCancellation)
    \/ Worker(tabOperation)
    \/ Worker(fanOut)
    \/ Worker(\E t \in Tabs : navigateTab(t))
    \/ Worker(\E t \in Tabs : waitForTabReady(t))
    \/ Worker(\E t \in Tabs : runContentAction_prepare(t))
    \/ Worker(\E t \in Tabs : runContentAction_send(t))
    \/ Worker(\E t \in Tabs : runContentAction_backoff(t))
    \/ Worker(aggregate)
    \/ Worker(sendResponse)

SpecBg == InitBg /\ [][NextBg]_vars

(***************************************************************************)
(* SpecSanitize: sanitizePlan applied to a bounded family of candidate     *)
(* plans.  A candidate is not an array, or an array of up to MaxRawLen     *)
(* copies of one raw step with another raw step at its first or last       *)
(* position.                                                               *)
(***************************************************************************)
MaxRawLen == 22

RawTargets ==
    {AbsentTarget, NumberTarget,
     StringTarget("ALL"), StringTarget(" Current "), StringTarget("Example.com"),
     StringTarget("some tabs"), StringTarget("two words.com"), StringTarget("   "),
     ObjectTarget("ALL", NotAString), ObjectTarget(" All ", NotAString),
     ObjectTarget("Active", NotAString), ObjectTarget("window", "example.com"),
     ObjectTarget("Domain", " Example.com "), ObjectTarget("domain", "   "),
     ObjectTarget("domain", NotAString), ObjectTarget("URL_contains", "/Cart"),
     TabValueTarget("TAB_ID", Num(2)), TabValueTarget("tab_id", Num(0)),
     TabValueTarget("tab_id", NaN), TabIdTarget("tab_id", Num(1)), TabIdTarget("tab_id", NaN)}

RawTexts == {NotText, Str(0, ""), Padded(5, "hello"), Str(3000, "long")}

RawSelectors == {NotText, Str(4, "#buy"), Str(321, "long")}

RawFields ==
    {<<>>,
     <<RawField(FALSE, NotText, NotText, NotText)>>,
     <<RawField(TRUE, Str(0, ""), Str(5, "email"), NotText)>>,
     <<RawField(TRUE, Str(1300, "long"), Str(5, "email"), Str(40, "long"))>>,
     [i \in 1..13 |-> RawField(TRUE, Str(2, "ok"), NotText, NotText)]}

RawPool ==
    {NotAnObject}
    \cup {RawStep(a) : a \in {NotAString, "   ", "reply", "DELETE_ALL", "PLAY_MEDIA"}}
    \cup {[RawStep("REPLY") EXCEPT !.message = m] : m \in RawTexts}
    \cup {[RawStep(a) EXCEPT !.url = u] :
            a \in {" navigate", "OPEN_TAB"},
            u \in {NotAString, "example.com", "javascript:alert(1)", " HTTP://Shop.test/cart "}}
    \cup {[RawStep("SWITCH_TAB") EXCEPT !.tabId = n] : n \in {NaN, Num(0), Num(3)}}
    \cup {[RawStep("GOOGLE_SEARCH") EXCEPT !.query = q] : q \in RawTexts}
    \cup {[RawStep("click") EXCEPT !.selector = sel, !.text = tx, !.target = tg] :
            sel \in RawSelectors, tx \in {NotText, Padded(5, "hello")},
            tg \in {AbsentTarget, StringTarget("ALL")}}
    \cup {[RawStep("TYPE") EXCEPT !.selector = sel, !.text = tx] :
            sel \in RawSelectors, tx \in RawTexts}
    \cup {[RawStep("FILL_FORM") EXCEPT !.isArray = TRUE, !.fields = f, !.submit = b] :
            f \in RawFields, b \in BOOLEAN}
    \cup {RawStep("FILL_FORM")}
    \cup {[RawStep(a) EXCEPT !.num = n] :
            a \in {"ANALYZE_PAGE", "SCRAPE_PAGE", "wait "},
            n \in {NaN, Num(0), Num(10), Num(4000), Num(50000)}}
    \cup {[RawStep("VISUALIZE_PAGE") EXCEPT !.target = tg] : tg \in RawTargets}

Fillers ==
    {RawStep("PLAY_MEDIA"), RawStep("DELETE_ALL"),
     [RawStep("REPLY") EXCEPT !.message = Str(5, "hello")]}

ArrayPlan(n, filler, special, first) ==
    [isArray |-> TRUE,
     items |-> [j \in 1..n |-> IF j = (IF first THEN 1 ELSE n) THEN special ELSE filler]]

CandidatePlans ==
    {NoCandidate}
    \cup {ArrayPlan(n, filler, special, first) :
            n \in 0..MaxRawLen, filler \in Fillers, special \in RawPool, first \in BOOLEAN}

\* the Target Specs inferDefaultTarget can return, and a missing default
DefaultTargets ==
    {NoTarget, TargetActive, TargetAll, TargetDomain, TargetTab(2),
     [mode |-> "url_contains", tabId |-> 0, value |-> "/cart"]}

Sanitize ==
    /\ ~planned
    /\ plan' = sanitizePlan(candidate, defaultTarget)
    /\ planned' = TRUE
    /\ UNCHANGED <<candidate, defaultTarget, plannerVars, bgVars, browserVars, panelVars>>

InitSanitize ==
    /\ BgInit
    /\ PageIdle
    /\ DomIdle
    /\ PanelIdle
    /\ openTabs = 1
    /\ tabUrl = [t \in Tabs |-> "https://example.com/"]
    /\ candidate \in CandidatePlans
    /\ defaultTarget \in DefaultTargets
    /\ plan = <<>>
    /\ planned = FALSE
    /\ PlannerIdle

NextSanitize == Sanitize

SpecSanitize == InitSanitize /\ [][NextSanitize]_vars

(***************************************************************************)
(* Spec: the extension as a whole.  One agent-mode run of the side panel,  *)
(* the user's stop button and approval answers, and the service worker     *)
(* receiving the run's messages in the order they were sent.               *)
(***************************************************************************)
MaxPlanLen == 2

Prompts ==
    {[planner |-> "deterministic", needsContext |-> FALSE, auth |-> FALSE],
     [planner |-> "fast", needsContext |-> TRUE, auth |-> TRUE],
     [planner |-> "llm", needsContext |-> FALSE, auth |-> FALSE],
     [planner |-> "llm", needsContext |-> TRUE, auth |-> TRUE]}

AgentRawPool ==
    {[RawStep("reply") EXCEPT !.message = Padded(5, "hello")],
     [RawStep(" Click ") EXCEPT !.selector = Str(7, "#submit")],
     [RawStep("TYPE") EXCEPT !.selector = Str(4, "#buy"), !.text = Str(5, "hello")],
     [RawStep("OPEN_TAB") EXCEPT !.url = "example.com"],
     [RawStep(" navigate") EXCEPT !.url = " HTTP://Shop.test/cart "],
     RawStep("wait ")}

\* FILL_FORM steps of one field that do not submit: a plain field, a field
\* whose placeholder names a password, and a plain field whose value is a
\* secret
FormFields ==
    {RawField(TRUE, Str(5, "hello"), Str(5, "notes"), Str(4, "text")),
     [RawField(TRUE, Str(5, "hello"), Str(5, "notes"), NotText)
        EXCEPT !.placeholder = Str(8, "password")],
     RawField(TRUE, Str(12, "secret"), Str(5, "notes"), Str(4, "text"))}

PlannerPlans ==
    {NoCandidate}
    \cup {[isArray |-> TRUE, items |-> items] :
            items \in UNION {[1..n -> AgentRawPool] : n \in 0..MaxPlanLen}}
    \cup {[isArray |-> TRUE,
           items |-> <<[RawStep("FILL_FORM") EXCEPT !.isArray = TRUE, !.fields = <<f>>]>>] :
            f \in FormFields}

\* an event of the side panel leaves the worker and the browser alone
Panel(event) == event /\ UNCHANGED <<bgVars, browserVars>>

\* the service worker's listener takes the next message of the side panel
WorkerReceive ==
    /\ outbox # <<>>
    /\ outbox' = Tail(outbox)
    /\ IF Head(outbox).type = "EXECUTE_AGENT_PLAN"
       THEN executeAgentPlan(Head(outbox).plan, Head(outbox).runId)
       ELSE /\ cancelAgentRun(Head(outbox).runId)
            /\ UNCHANGED <<jobPc, jobRunId, jobPlan, jobTabs, tabPc, attempt, caught, results,
                           jobResponse>>
    /\ UNCHANGED <<browserVars, planVars, prompt, run, isProcessing, stopRequested,
                   signalAborted, pendingApprovalResolver, currentRunId, cancelRequested,
                   card, chat>>

\* the worker's sendResponse, and the callback of the side panel: a promise
\* the abort already rejected ignores the response
Respond ==
    /\ sendResponse
    /\ Become(Awaited(run, plan, ResponseOutcome(jobResponse), stopRequested, signalAborted),
              <<>>, stopRequested, signalAborted)
    /\ UNCHANGED <<browserVars, cancelRequested>>

Init ==
    /\ BgInit
    /\ PageIdle
    /\ DomIdle
    /\ openTabs = 1
    /\ tabUrl \in [Tabs -> UrlPool]
    /\ \A t \in Tabs : t > openTabs => tabUrl[t] = "chrome://settings"
    /\ prompt \in Prompts
    /\ defaultTarget = TargetActive
    /\ candidate \in {PlanSource(prompt, defaultTarget, plannerPlan) :
                         plannerPlan \in PlannerPlans}
    /\ plan = <<>>
    /\ planned = FALSE
    /\ PlannerIdle
    /\ run = NoRun
    /\ isProcessing = FALSE
    /\ stopRequested = FALSE
    /\ signalAborted = FALSE
    /\ pendingApprovalResolver = FALSE
    /\ currentRunId = ""
    /\ outbox = <<>>
    /\ cancelRequested = FALSE
    /\ card = NoCard
    /\ chat = NoChat

Next ==
    \/ Panel(handleSendMessage(ObservedRun))
    \/ Panel(stopCurrentProcess)
    \/ Panel(SnapshotReply)
    \/ Panel(ContextReply)
    \/ Panel(PlannerReply)
    \/ Panel(ApprovalAnswer)
    \/ Panel(DelayTick)
    \/ WorkerReceive
    \/ Worker(waitWithCancellation)
    \/ Worker(tabOperation)
    \/ Worker(fanOut)
    \/ Worker(\E t \in Tabs : navigateTab(t))
    \/ Worker(\E t \in Tabs : waitForTabReady(t))
    \/ Worker(\E t \in Tabs : runContentAction_prepare(t))
    \/ Worker(\E t \in Tabs : runContentAction_send(t))
    \/ Worker(\E t \in Tabs : runContentAction_backoff(t))
    \/ Worker(aggregate)
    \/ Respond

Spec == Init /\ [][Next]_vars

\* every call the run awaits settles: the worker takes the messages sent to
\* it, works through the job and responds, the planner and the tab queries
\* answer, and the timers of the delay and of the approval card fire.  The
\* user owes nothing: neither a click on the card nor a stop.
Settles ==
    /\ WF_vars(Panel(SnapshotReply))
    /\ WF_vars(Panel(ContextReply))
    /\ WF_vars(Panel(PlannerReply))
    /\ WF_vars(Panel(CardEvent("timeout")))
    /\ WF_vars(Panel(DelayTick))
    /\ WF_vars(WorkerReceive)
    /\ WF_vars(Worker(waitWithCancellation))
    /\ WF_vars(Worker(tabOperation))
    /\ WF_vars(Worker(fanOut))
    /\ WF_vars(Worker(\E t \in Tabs : navigateTab(t)))
    /\ WF_vars(Worker(\E t \in Tabs : waitForTabReady(t)))
    /\ WF_vars(Worker(\E t \in Tabs : runContentAction_prepare(t)))
    /\ WF_vars(Worker(\E t \in Tabs : runContentAction_send(t)))
    /\ WF_vars(Worker(\E t \in Tabs : runContentAction_backoff(t)))
    /\ WF_vars(Worker(aggregate))
    /\ WF_vars(Respond)

SpecFair == Spec /\ Settles


(***************************************************************************)
(* SpecTab: one content action on one tab, step by step.  runContentAction *)
(* is followed through every await of an attempt: the polls of             *)
(* waitForTabReady, the injection of content.js, the RUN_ACTION round      *)
(* trip and the backoff.  Meanwhile the browser navigates the tab, commits *)
(* and finishes loads, and the run may be canceled.  The clock is free:    *)
(* every evaluation of waitForTabReady's loop condition may find the       *)
(* timeout elapsed.                                                        *)
(***************************************************************************)
\* the tab the content action runs on
ObservedTab == 1

ChromeTab(t) == Tab(tabUrl[t], pendingUrl[t], tabStatus[t])

\* tab.pendingUrl || tab.url || ''
observedUrl(tab) == IF tab.pendingUrl # "" THEN tab.pendingUrl ELSE tab.url

\* runContentAction without the restricted-page test
After_ready_unchecked(t, tab) ==
    /\ tabPc' = [tabPc EXCEPT ![t] = "inject"]
    /\ UNCHANGED <<caught, results, attempt>>

\* runContentAction from the return of waitForTabReady to executeScript
After_ready(t, tab) ==
    IF isRestrictedUrl(observedUrl(tab))
    THEN Catch(t, MsgRestricted)
    ELSE /\ tabPc' = [tabPc EXCEPT ![t] = "inject"]
         /\ UNCHANGED <<caught, results, attempt>>

\* waitForTabReady returns tab to runContentAction
Return(t, tab, why) ==
    /\ readyExit' = [readyExit EXCEPT ![t] = why]
    /\ contentTab' = [contentTab EXCEPT ![t] = tab]
    /\ After_ready(t, tab)

\* a loop condition that raises a timeout error once the time has elapsed
waitForTabReady_loop_throws(t, latest, elapsed) ==
    IF elapsed
    THEN /\ readyExit' = [readyExit EXCEPT ![t] = "timeout"]
         /\ Catch(t, MsgTimedOut)
         /\ UNCHANGED contentTab
    ELSE IF isCanceled(RUN_STATES, jobRunId)
    THEN /\ readyExit' = [readyExit EXCEPT ![t] = "canceled"]
         /\ Catch(t, MsgCanceled)
         /\ UNCHANGED contentTab
    ELSE /\ tabPc' = [tabPc EXCEPT ![t] = "get"]
         /\ UNCHANGED <<caught, results, attempt, readyExit, contentTab>>

\* waitForTabReady: the loop condition, throwIfCanceled and the next
\* chrome.tabs.get
waitForTabReady_loop(t, latest, elapsed) ==
    IF elapsed THEN Return(t, latest, "timeout")
    ELSE IF isCanceled(RUN_STATES, jobRunId)
    THEN /\ readyExit' = [readyExit EXCEPT ![t] = "canceled"]
         /\ Catch(t, MsgCanceled)
         /\ UNCHANGED contentTab
    ELSE /\ tabPc' = [tabPc EXCEPT ![t] = "get"]
         /\ UNCHANGED <<caught, results, attempt, readyExit, contentTab>>

\* chrome.tabs.get rejects: the tab is gone
Rejected_get(t) ==
    /\ readyExit' = [readyExit EXCEPT ![t] = "rejected"]
    /\ Catch(t, MsgNoTab)
    /\ UNCHANGED <<latestTab, contentTab, lastGot>>

\* waitForTabReady: the chrome.tabs.get before the loop settles
waitForTabReady_get(t) ==
    /\ jobPc = "fanout"
    /\ tabPc[t] = "get0"
    /\ \/ Rejected_get(t)
       \/ /\ latestTab' = [latestTab EXCEPT ![t] = ChromeTab(t)]
          /\ lastGot' = [lastGot EXCEPT ![t] = ChromeTab(t)]
          /\ \E elapsed \in BOOLEAN : waitForTabReady_loop(t, ChromeTab(t), elapsed)
    /\ UNCHANGED <<tabUrl, pendingUrl, tabStatus, listenerInstalled, listeners, injected, delivered, ran>>

\* waitForTabReady: the chrome.tabs.get of a loop turn settles
waitForTabReady_poll(t) ==
    /\ jobPc = "fanout"
    /\ tabPc[t] = "get"
    /\ \/ Rejected_get(t)
       \/ /\ latestTab' = [latestTab EXCEPT ![t] = ChromeTab(t)]
          /\ lastGot' = [lastGot EXCEPT ![t] = ChromeTab(t)]
          /\ IF isRestrictedUrl(observedUrl(ChromeTab(t)))
             THEN Return(t, ChromeTab(t), "restricted")
             ELSE IF ChromeTab(t).status \in {"", "complete"}
             THEN Return(t, ChromeTab(t), "complete")
             ELSE /\ tabPc' = [tabPc EXCEPT ![t] = "delay"]
                  /\ UNCHANGED <<caught, results, attempt, readyExit, contentTab>>
    /\ UNCHANGED <<tabUrl, pendingUrl, tabStatus, listenerInstalled, listeners, injected, delivered, ran>>

\* waitForTabReady: delay(120) settles
waitForTabReady_delay(t) ==
    /\ jobPc = "fanout"
    /\ tabPc[t] = "delay"
    /\ \E elapsed \in BOOLEAN : waitForTabReady_loop(t, latestTab[t], elapsed)
    /\ UNCHANGED <<tabUrl, pendingUrl, tabStatus, latestTab, lastGot, listenerInstalled,
                   listeners, injected, delivered, ran>>

\* content.js run without its guard
initializeRithconContent_unguarded(installed, count) ==
    [installed |-> TRUE, listeners |-> count + 1]

\* content.js run in a document: the guarded installation of the listener
initializeRithconContent(installed, count) ==
    IF installed THEN [installed |-> installed, listeners |-> count]
    ELSE [installed |-> TRUE, listeners |-> count + 1]

\* runContentAction: chrome.scripting.executeScript settles, then
\* throwIfCanceled and sendMessageToTab
executeScript(t) ==
    /\ jobPc = "fanout"
    /\ tabPc[t] = "inject"
    /\ \/ /\ \E message \in InjectErrors : Catch(t, message)
          /\ UNCHANGED <<listenerInstalled, listeners, injected>>
       \/ /\ ~isRestrictedUrl(tabUrl[t])
          /\ LET script == initializeRithconContent(listenerInstalled[t], listeners[t])
             IN /\ listenerInstalled' = [listenerInstalled EXCEPT ![t] = script.installed]
                /\ listeners' = [listeners EXCEPT ![t] = script.listeners]
                /\ injected' = [injected EXCEPT ![t] = injected[t] + 1]
          /\ IF isCanceled(RUN_STATES, jobRunId)
             THEN Catch(t, MsgCanceled)
             ELSE /\ tabPc' = [tabPc EXCEPT ![t] = "send"]
                  /\ UNCHANGED <<caught, results, attempt>>
    /\ UNCHANGED <<tabUrl, pendingUrl, tabStatus, latestTab, contentTab, lastGot, readyExit,
                   delivered, ran>>

\* the listener content.js installs, on a message: how often it runs
\* handleAction and how often it calls sendResponse, in the then or in the
\* catch of handleAction's promise
onMessage(type, resolves) ==
    IF type # "RUN_ACTION" THEN NoDelivery
    ELSE [runs |-> 1, responses |-> (IF resolves THEN 1 ELSE 0) + (IF resolves THEN 0 ELSE 1)]

\* runContentAction: the RUN_ACTION round trip settles.  Every listener of
\* the document takes the message; the timer of sendMessageToTab may fire
\* before the message is taken or before handleAction's response arrives.
runContentAction_deliver(t) ==
    /\ jobPc = "fanout"
    /\ tabPc[t] = "send"
    /\ \/ /\ listeners[t] = 0
          /\ Catch(t, MsgNoReceiver)
          /\ UNCHANGED <<delivered, ran>>
       \/ /\ Catch(t, MsgTimedOut)
          /\ UNCHANGED <<delivered, ran>>
       \/ /\ listeners[t] > 0
          /\ \E resolves \in BOOLEAN :
                /\ delivered' = [runs |-> listeners[t] * onMessage("RUN_ACTION", resolves).runs,
                                 responses |->
                                     listeners[t] * onMessage("RUN_ACTION", resolves).responses]
                /\ ran' = ran + listeners[t] * onMessage("RUN_ACTION", resolves).runs
                /\ \/ /\ resolves
                      /\ Settle(t, SuccessResult)
                   \/ /\ ~resolves
                      /\ \E message \in ContentErrors(jobPlan.action) : Catch(t, message)
                   \/ Catch(t, MsgTimedOut)
    /\ UNCHANGED <<tabUrl, pendingUrl, tabStatus, latestTab, contentTab, lastGot, readyExit,
                   listenerInstalled, listeners, injected>>

\* runContentAction: delay(180) settles; the next attempt starts with
\* throwIfCanceled and waitForTabReady's first chrome.tabs.get
runContentAction_retry(t) ==
    /\ jobPc = "fanout"
    /\ tabPc[t] = "backoff"
    /\ IF isCanceled(RUN_STATES, jobRunId)
       THEN Settle(t, ErrorResult(MsgCanceled))
       ELSE /\ tabPc' = [tabPc EXCEPT ![t] = "get0"]
            /\ attempt' = [attempt EXCEPT ![t] = attempt[t] + 1]
            /\ caught' = [caught EXCEPT ![t] = MsgNone]
            /\ UNCHANGED results
    /\ UNCHANGED <<tabUrl, pendingUrl, tabStatus, latestTab, contentTab, lastGot, readyExit,
                   listenerInstalled, listeners, injected, delivered, ran>>

\* the browser starts a navigation of the tab
StartNavigation(t) ==
    /\ pendingUrl[t] = ""
    /\ \E url \in UrlPool : pendingUrl' = [pendingUrl EXCEPT ![t] = url]
    /\ tabStatus' = [tabStatus EXCEPT ![t] = "loading"]
    /\ UNCHANGED <<tabUrl, listenerInstalled, listeners, injected>>

\* the navigation commits: the tab shows a new document
CommitNavigation(t) ==
    /\ pendingUrl[t] # ""
    /\ tabUrl' = [tabUrl EXCEPT ![t] = pendingUrl[t]]
    /\ pendingUrl' = [pendingUrl EXCEPT ![t] = ""]
    /\ listenerInstalled' = [listenerInstalled EXCEPT ![t] = FALSE]
    /\ listeners' = [listeners EXCEPT ![t] = 0]
    /\ injected' = [injected EXCEPT ![t] = 0]
    /\ UNCHANGED tabStatus

\* the document finishes loading
FinishLoad(t) ==
    /\ pendingUrl[t] = ""
    /\ tabStatus[t] = "loading"
    /\ tabStatus' = [tabStatus EXCEPT ![t] = "complete"]
    /\ UNCHANGED <<tabUrl, pendingUrl, listenerInstalled, listeners, injected>>

\* a step of the browser leaves the worker alone
Browser(step) ==
    /\ step
    /\ UNCHANGED <<bgVars, openTabs, planVars, panelVars, domVars, latestTab, contentTab,
                   lastGot, readyExit, delivered, ran>>

\* a step of the content action
TabStep(step) ==
    /\ step
    /\ UNCHANGED <<RUN_STATES, jobPc, jobRunId, jobPlan, jobTabs, jobResponse, openTabs,
                   planVars, panelVars, domVars>>

CancelObservedRun ==
    /\ ~isCanceled(RUN_STATES, ObservedRun)
    /\ cancelAgentRun(ObservedRun)
    /\ UNCHANGED <<jobPc, jobRunId, jobPlan, jobTabs, tabPc, attempt, caught, results,
                   jobResponse, browserVars, planVars, panelVars>>

TabPlans == {[action |-> "CLICK", target |-> TargetActive],
             [action |-> "TYPE", target |-> TargetActive]}

\* the fan-out has started the content action on the tab, which shows a
\* document that an earlier step may have injected content.js into
InitTab ==
    /\ PlanIdle
    /\ PanelIdle
    /\ DomIdle
    /\ openTabs = 1
    /\ RUN_STATES = setRunState([r \in RunIds |-> [present |-> FALSE, canceled |-> FALSE]],
                                ObservedRun, FALSE)
    /\ jobPc = "fanout"
    /\ jobRunId = ObservedRun
    /\ jobPlan \in TabPlans
    /\ jobTabs = <<ObservedTab>>
    /\ tabPc = [t \in Tabs |-> IF t = ObservedTab THEN "get0" ELSE "none"]
    /\ attempt = [t \in Tabs |-> IF t = ObservedTab THEN 1 ELSE 0]
    /\ caught = [t \in Tabs |-> MsgNone]
    /\ results = [t \in Tabs |-> NoResult]
    /\ jobResponse = NoResponse
    /\ tabUrl \in [Tabs -> UrlPool]
    /\ \A t \in Tabs : t # ObservedTab => tabUrl[t] = "chrome://settings"
    /\ pendingUrl \in [Tabs -> UrlPool \cup {""}]
    /\ \A t \in Tabs : t # ObservedTab => pendingUrl[t] = ""
    /\ tabStatus \in [Tabs -> {"", "loading", "complete"}]
    /\ \A t \in Tabs : t # ObservedTab => tabStatus[t] = "complete"
    /\ pendingUrl[ObservedTab] # "" => tabStatus[ObservedTab] = "loading"
    /\ latestTab = [t \in Tabs |-> NoTab]
    /\ contentTab = [t \in Tabs |-> NoTab]
    /\ lastGot = [t \in Tabs |-> NoTab]
    /\ readyExit = [t \in Tabs |-> "none"]
    /\ listenerInstalled \in [Tabs -> BOOLEAN]
    /\ \A t \in Tabs : t # ObservedTab => ~listenerInstalled[t]
    /\ listeners = [t \in Tabs |-> IF listenerInstalled[t] THEN 1 ELSE 0]
    /\ injected = listeners
    /\ delivered = NoDelivery
    /\ ran = 0

NextTab ==
    \/ TabStep(waitForTabReady_get(ObservedTab))
    \/ TabStep(waitForTabReady_poll(ObservedTab))
    \/ TabStep(waitForTabReady_delay(ObservedTab))
    \/ TabStep(executeScript(ObservedTab))
    \/ TabStep(runContentAction_deliver(ObservedTab))
    \/ TabStep(runContentAction_retry(ObservedTab))
    \/ Browser(StartNavigation(ObservedTab))
    \/ Browser(CommitNavigation(ObservedTab))
    \/ Browser(FinishLoad(ObservedTab))
    \/ CancelObservedRun

SpecTab == InitTab /\ [][NextTab]_vars


(***************************************************************************)
(* SpecContent: content.js handling one plan step in a document.  The      *)
(* step is a TYPE, a FILL_FORM, or VISUALIZE_PAGE delivered up to          *)
(* MaxVisualize times, with the auto-revert timers firing in the order     *)
(* they were set and the page showing and hiding elements in between.      *)
(***************************************************************************)
MaxVisualize == 2

\* handleAction: case 'TYPE'
HandleType ==
    /\ contentStep.action = "TYPE"
    /\ handled = NotHandled
    /\ LET done == typeIntoField(contentStep, elements)
       IN /\ handled' = done.response
          /\ elements' = done.fields
    /\ UNCHANGED <<contentStep, page, triggered, fieldSets, lookup, outline, dataset, visible,
                   timers, calls, overlapped, original>>

\* handleAction: case 'FILL_FORM'
HandleFillForm ==
    /\ contentStep.action = "FILL_FORM"
    /\ handled = NotHandled
    /\ LET done == fillForm(contentStep, elements, page)
       IN /\ handled' = done.response
          /\ elements' = done.fields
          /\ triggered' = done.triggered
          /\ fieldSets' = done.sets
    /\ UNCHANGED <<contentStep, page, lookup, outline, dataset, visible, timers, calls,
                   overlapped, original>>

\* handleAction: case 'VISUALIZE_PAGE'
visualizePage ==
    /\ contentStep.action = "VISUALIZE_PAGE"
    /\ calls < MaxVisualize
    /\ calls' = calls + 1
    /\ handled' = Returned("")
    /\ LET candidates == {e \in ElementIds : visible[e]}
       IN IF candidates = {}
          THEN UNCHANGED <<outline, dataset, timers, overlapped, original>>
          ELSE /\ dataset' = [e \in ElementIds |->
                                IF e \in candidates THEN outline[e] ELSE dataset[e]]
               /\ outline' = [e \in ElementIds |->
                                IF e \in candidates THEN Accent ELSE outline[e]]
               /\ timers' = Append(timers, candidates)
               /\ overlapped' = (overlapped \/ timers # <<>>)
    /\ UNCHANGED <<contentStep, elements, page, triggered, fieldSets, lookup, visible, original>>

\* a revert that leaves the saved outline in the dataset
RevertTimer_keepDataset ==
    /\ timers # <<>>
    /\ timers' = Tail(timers)
    /\ outline' = [e \in ElementIds |->
                     IF e \in Head(timers)
                     THEN (IF dataset[e] = "unset" THEN "" ELSE dataset[e])
                     ELSE outline[e]]
    /\ UNCHANGED <<contentStep, elements, page, handled, triggered, fieldSets, lookup,
                   visible, calls, overlapped, dataset, original>>

\* the callback visualizePage passed to setTimeout runs
RevertTimer ==
    /\ timers # <<>>
    /\ timers' = Tail(timers)
    /\ outline' = [e \in ElementIds |->
                     IF e \in Head(timers)
                     THEN (IF dataset[e] = "unset" THEN "" ELSE dataset[e])
                     ELSE outline[e]]
    /\ dataset' = [e \in ElementIds |-> IF e \in Head(timers) THEN "unset" ELSE dataset[e]]
    /\ UNCHANGED <<contentStep, elements, page, handled, triggered, fieldSets, lookup,
                   visible, calls, overlapped, original>>

\* the page shows or hides an element
ToggleVisible ==
    /\ contentStep.action = "VISUALIZE_PAGE"
    /\ \E e \in ElementIds : visible' = [visible EXCEPT ![e] = ~visible[e]]
    /\ UNCHANGED <<contentStep, elements, page, handled, triggered, fieldSets, lookup,
                   outline, dataset, timers,
                   calls, overlapped, original>>

Texts == {<<"A">>, <<"b">>, <<"a", " ", " ", "b">>, <<"B", " ">>}

SelectOptions == <<Option(<<"1">>, <<"A", " ", "b">>), Option(<<"a">>, <<"B">>)>>

TypeElements ==
    {Element(kind, value, <<>>, react, FALSE) :
        kind \in {"input", "textarea"}, value \in {<<>>, <<"a">>},
        react \in {"keep", "upper", "pad", "reject", "mask"}}
    \cup {Element("select", <<"1">>, SelectOptions, react, FALSE) : react \in {"keep", "reject"}}

TypeSteps ==
    {[NoStep EXCEPT !.action = "TYPE", !.element = e, !.text = text, !.clear = clear] :
        e \in {0, 1}, text \in Texts, clear \in {"absent", "true", "false"}}

FieldSpec(element, value) == [element |-> element, value |-> value]

FillSteps ==
    {[NoStep EXCEPT !.action = "FILL_FORM", !.fields = specs, !.submit = submit,
                    !.submitSelector = selector] :
        specs \in {<<>>, <<FieldSpec(0, <<"A">>)>>, <<FieldSpec(1, <<"A">>)>>,
                   <<FieldSpec(1, <<"A">>), FieldSpec(2, <<"b">>)>>,
                   <<FieldSpec(0, <<"A">>), FieldSpec(2, <<"b">>)>>},
        submit \in BOOLEAN, selector \in {"absent", " ", "#go"}}

FillOffers ==
    {Offers(selector, button, requestSubmit, inForm, global) :
        selector \in {"none", "hidden", "visible"}, button \in {"none", "hidden", "visible"},
        requestSubmit \in BOOLEAN, inForm \in BOOLEAN, global \in BOOLEAN}

InitType ==
    /\ contentStep \in TypeSteps
    /\ \E element \in TypeElements :
          elements = [e \in ElementIds |->
                        IF e = 1 THEN element ELSE Element("input", <<>>, <<>>, "keep", FALSE)]
    /\ page = NoPage
    /\ outline = [e \in ElementIds |-> ""]
    /\ visible = [e \in ElementIds |-> TRUE]

InitFill ==
    /\ contentStep \in FillSteps
    /\ elements \in [ElementIds -> {Element("input", <<>>, <<>>, react, form) :
                                      react \in {"keep", "reject"}, form \in BOOLEAN}]
    /\ page \in FillOffers
    /\ page.semanticInForm => page.semanticGlobal
    /\ outline = [e \in ElementIds |-> ""]
    /\ visible = [e \in ElementIds |-> TRUE]

InitVisualize ==
    /\ contentStep = [NoStep EXCEPT !.action = "VISUALIZE_PAGE"]
    /\ elements = [e \in ElementIds |-> Element("input", <<>>, <<>>, "keep", FALSE)]
    /\ page = NoPage
    /\ outline \in [ElementIds -> {"", "1px solid red"}]
    /\ visible \in [ElementIds -> BOOLEAN]

InitContent ==
    /\ BgInit
    /\ PageIdle
    /\ PlanIdle
    /\ PanelIdle
    /\ openTabs = 1
    /\ tabUrl = [t \in Tabs |-> "https://example.com/"]
    /\ handled = NotHandled
    /\ triggered = <<>>
    /\ fieldSets = NoSets
    /\ lookup = NoLookup
    /\ dataset = [e \in ElementIds |-> "unset"]
    /\ timers = <<>>
    /\ calls = 0
    /\ overlapped = FALSE
    /\ \/ InitType
       \/ InitFill
       \/ InitVisualize
    /\ original = outline

\* a step of the content script leaves the extension alone
Content(step) ==
    /\ step
    /\ UNCHANGED <<bgVars, openTabs, tabUrl, pageVars, planVars, panelVars>>

NextContent ==
    \/ Content(HandleType)
    \/ Content(HandleFillForm)
    \/ Content(visualizePage)
    \/ Content(RevertTimer)
    \/ Content(ToggleVisible)

SpecContent == InitContent /\ [][NextContent]_vars


(***************************************************************************)
(* SpecField: findFieldElement on one descriptor and one document.  The    *)
(* document has MaxElements fields, each named, labelled and typed in one  *)
(* of a few ways, some of them not fillable.                               *)
(***************************************************************************)
FieldPool ==
    {DomField(<<"a">>, <<>>, <<>>, <<>>, <<>>, <<>>, <<"text">>),
     DomField(<<"a", "b">>, <<"a">>, <<>>, <<>>, <<>>, <<>>, <<"text">>),
     DomField(<<>>, <<>>, <<"A", " ", "b">>, <<"a">>, <<>>, <<>>, <<"search">>),
     DomField(<<>>, <<>>, <<>>, <<>>, <<"A", " ">>, <<"a">>, <<"email">>),
     [DomField(<<"a">>, <<>>, <<>>, <<>>, <<>>, <<>>, <<"text">>) EXCEPT !.disabled = TRUE],
     [DomField(<<"a">>, <<>>, <<>>, <<>>, <<>>, <<>>, <<"text">>) EXCEPT !.visible = FALSE],
     DomField(<<"a">>, <<>>, <<>>, <<>>, <<>>, <<>>, <<"hidden">>)}

Descriptors ==
    {Descriptor(hasSelector, name, label, placeholder, type) :
        hasSelector \in BOOLEAN, name \in {<<>>, <<" ", "A">>, <<"b">>},
        label \in {<<>>, <<"a", " ", " ", "b">>}, placeholder \in {<<>>, <<"a">>},
        type \in {<<>>, <<"text">>, <<"email">>}}
    \cup {[Descriptor(FALSE, <<>>, <<>>, <<>>, <<>>) EXCEPT !.isObject = FALSE]}

InitField ==
    /\ BgInit
    /\ PageIdle
    /\ PlanIdle
    /\ PanelIdle
    /\ openTabs = 1
    /\ tabUrl = [t \in Tabs |-> "https://example.com/"]
    /\ contentStep = NoStep
    /\ elements = [e \in ElementIds |-> Element("input", <<>>, <<>>, "keep", FALSE)]
    /\ page = NoPage
    /\ handled = NotHandled
    /\ triggered = <<>>
    /\ fieldSets = NoSets
    /\ outline = [e \in ElementIds |-> ""]
    /\ dataset = [e \in ElementIds |-> "unset"]
    /\ visible = [e \in ElementIds |-> TRUE]
    /\ timers = <<>>
    /\ calls = 0
    /\ overlapped = FALSE
    /\ original = outline
    /\ \E descriptor \in Descriptors, fields \in [ElementIds -> FieldPool],
          selected \in {Selected(kind, 0) : kind \in {"none", "other", "invalid"}}
                       \cup {Selected("field", e) : e \in ElementIds} :
          /\ ~descriptor.hasSelector => selected.kind = "none"
          /\ lookup = [NoLookup EXCEPT !.descriptor = descriptor, !.fields = fields,
                                       !.selected = selected]

\* fillForm and typeIntoField call findFieldElement
FindField ==
    /\ ~lookup.done
    /\ lookup' = [lookup EXCEPT !.done = TRUE,
                                !.result = findFieldElement(lookup.descriptor, lookup.fields,
                                                            lookup.selected)]
    /\ UNCHANGED <<bgVars, openTabs, tabUrl, pageVars, planVars, panelVars, contentStep,
                   elements, page, handled, triggered, fieldSets, outline, dataset, visible,
                   timers, calls, overlapped, original>>

NextField == FindField

SpecField == InitField /\ [][NextField]_vars

(***************************************************************************)
(* SpecPlanner: processAgentCommand from the planner's response to the     *)
(* first await of the step loop.  A response is a sequence of tokens: code *)
(* fences, words of prose, and the tokens of JSON (punctuation, string    *)
(* literals, other literals).  A string literal is one token, so the      *)
(* strings of the responses hold no brace and no bracket; white space     *)
(* between tokens is left out, and len counts the characters of a token.   *)
(***************************************************************************)
Tok(kind, text, len) == [kind |-> kind, text |-> text, len |-> len]
Punct(c) == Tok("punct", c, 1)
StrTok(text, len) == Tok("string", text, len + 2)
LitTok(text) == Tok("literal", text, 4)
Prose(text) == Tok("prose", text, 6)
Fence(text) == Tok("fence", text, 4)

\* JavaScript values as JSON.parse builds them; the members of an object
\* keep their order, the items of an array have the key ""
JUndefined == [t |-> "undefined", s |-> "", len |-> 0, kids |-> <<>>]
JStr(text, len) == [t |-> "string", s |-> text, len |-> len, kids |-> <<>>]
JLit(text) == [t |-> "literal", s |-> text, len |-> 0, kids |-> <<>>]
JNull == JLit("null")
Member(key, val) == [key |-> key, val |-> val]
JObj(members) == [t |-> "object", s |-> "", len |-> 0, kids |-> members]
JArr(items) ==
    [t |-> "array", s |-> "", len |-> 0, kids |-> [i \in 1..Len(items) |-> Member("", items[i])]]

Items(value) == [i \in 1..Len(value.kids) |-> value.kids[i].val]

\* value[key]: the last member of that name, undefined when there is none
Get(value, key) ==
    LET at == {i \in 1..Len(value.kids) : value.kids[i].key = key}
    IN IF value.t # "object" \/ at = {} THEN JUndefined
       ELSE value.kids[CHOOSE i \in at : \A j \in at : j <= i].val

\* Boolean(value)
Truthy(value) ==
    CASE value.t \in {"object", "array"} -> TRUE
      [] value.t = "string" -> value.len > 0
      [] value.t = "literal" -> value.s \notin {"false", "null", "0"}
      [] OTHER -> FALSE

\* JSON.stringify(value), the form the planner is asked to answer in
RECURSIVE Render(_), RenderKids(_, _)
Render(value) ==
    CASE value.t = "string" -> <<StrTok(value.s, value.len)>>
      [] value.t = "literal" -> <<LitTok(value.s)>>
      [] value.t = "array" -> <<Punct("[")>> \o RenderKids(value.kids, FALSE) \o <<Punct("]")>>
      [] value.t = "object" -> <<Punct("{")>> \o RenderKids(value.kids, TRUE) \o <<Punct("}")>>
      [] OTHER -> <<>>

RenderKids(kids, keyed) ==
    IF kids = <<>> THEN <<>>
    ELSE (IF keyed THEN <<StrTok(Head(kids).key, 5), Punct(":")>> ELSE <<>>)
         \o Render(Head(kids).val)
         \o (IF Len(kids) > 1 THEN <<Punct(",")>> ELSE <<>>)
         \o RenderKids(Tail(kids), keyed)

\* JSON.parse: ok is false when it throws, next is the token after the value
ParseFailed == [ok |-> FALSE, val |-> JUndefined, next |-> 0]
Parsed(val, next) == [ok |-> TRUE, val |-> val, next |-> next]

\* F of the value of arg, with arg evaluated once
Once(F(_), arg) == CHOOSE out \in {F(value) : value \in {arg}} : TRUE

RECURSIVE ParseValue(_, _), ParseMembers(_, _, _), ParseItems(_, _, _)
ParseValue(toks, i) ==
    IF i > Len(toks) THEN ParseFailed
    ELSE CASE toks[i].kind = "string" -> Parsed(JStr(toks[i].text, toks[i].len - 2), i + 1)
           [] toks[i].kind = "literal" -> Parsed(JLit(toks[i].text), i + 1)
           [] toks[i] = Punct("{") ->
                IF i < Len(toks) /\ toks[i + 1] = Punct("}") THEN Parsed(JObj(<<>>), i + 2)
                ELSE ParseMembers(toks, i + 1, <<>>)
           [] toks[i] = Punct("[") ->
                IF i < Len(toks) /\ toks[i + 1] = Punct("]") THEN Parsed(JArr(<<>>), i + 2)
                ELSE ParseItems(toks, i + 1, <<>>)
           [] OTHER -> ParseFailed

\* the members of an object from the key at i on, after those in members
ParseMembers(toks, i, members) ==
    IF i + 2 > Len(toks) \/ toks[i].kind # "string" \/ toks[i + 1] # Punct(":")
    THEN ParseFailed
    ELSE Once(LAMBDA value :
                IF ~value.ok \/ value.next > Len(toks) THEN ParseFailed
                ELSE IF toks[value.next] = Punct(",")
                THEN ParseMembers(toks, value.next + 1,
                                  Append(members, Member(toks[i].text, value.val)))
                ELSE IF toks[value.next] = Punct("}")
                THEN Parsed(JObj(Append(members, Member(toks[i].text, value.val))),
                            value.next + 1)
                ELSE ParseFailed,
              ParseValue(toks, i + 2))

\* the items of an array from the value at i on, after those in items
ParseItems(toks, i, items) ==
    Once(LAMBDA value :
           IF ~value.ok \/ value.next > Len(toks) THEN ParseFailed
           ELSE IF toks[value.next] = Punct(",")
           THEN ParseItems(toks, value.next + 1, Append(items, value.val))
           ELSE IF toks[value.next] = Punct("]")
           THEN Parsed(JArr(Append(items, value.val)), value.next + 1)
           ELSE ParseFailed,
         ParseValue(toks, i))

JSONparse(toks) ==
    Once(LAMBDA text :
           Once(LAMBDA value :
                  IF value.ok /\ value.next = Len(text) + 1 THEN value ELSE ParseFailed,
                ParseValue(text, 1)),
         toks)

\* rawResponse.replace(/```json/gi, '').replace(/```/g, '')
StripFences(toks) == SelectSeq(toks, LAMBDA tok : tok.kind # "fence")

\* indexOf and lastIndexOf of a punctuation character, 0 for -1
IndexOf(toks, c) ==
    LET at == {i \in 1..Len(toks) : toks[i] = Punct(c)}
    IN IF at = {} THEN 0 ELSE CHOOSE i \in at : \A j \in at : i <= j

LastIndexOf(toks, c) ==
    LET at == {i \in 1..Len(toks) : toks[i] = Punct(c)}
    IN IF at = {} THEN 0 ELSE CHOOSE i \in at : \A j \in at : j <= i

\* a cleaning that prefers the array when the response opens with one
cleaned_bracketFirst(response) ==
    LET text == StripFences(response)
        firstBrace == IndexOf(text, "{")
        lastBrace == LastIndexOf(text, "}")
        firstBracket == IndexOf(text, "[")
        lastBracket == LastIndexOf(text, "]")
    IN IF firstBracket # 0 /\ lastBracket > firstBracket
          /\ (firstBrace = 0 \/ firstBracket < firstBrace)
       THEN SubSeq(text, firstBracket, lastBracket)
       ELSE IF firstBrace # 0 /\ lastBrace # 0 /\ lastBrace > firstBrace
       THEN SubSeq(text, firstBrace, lastBrace)
       ELSE text

\* the text parsePlannerResponse hands to JSON.parse
cleaned(response) ==
    LET text == StripFences(response)
        firstBrace == IndexOf(text, "{")
        lastBrace == LastIndexOf(text, "}")
        firstBracket == IndexOf(text, "[")
        lastBracket == LastIndexOf(text, "]")
    IN IF firstBrace # 0 /\ lastBrace # 0 /\ lastBrace > firstBrace
       THEN SubSeq(text, firstBrace, lastBrace)
       ELSE IF firstBracket # 0 /\ lastBracket # 0 /\ lastBracket > firstBracket
       THEN SubSeq(text, firstBracket, lastBracket)
       ELSE text

\* text.slice(0, n): a token the cut falls into keeps its first characters
RECURSIVE TakeChars(_, _)
TakeChars(toks, n) ==
    IF toks = <<>> \/ n <= 0 THEN <<>>
    ELSE IF Head(toks).len <= n THEN <<Head(toks)>> \o TakeChars(Tail(toks), n - Head(toks).len)
    ELSE <<Tok(Head(toks).kind, "<cut>", n)>>

\* redactSensitiveText on the words the model uses: the e-mail mask, the
\* key=value replacement and the mask of tokens of 24 characters or more.
\* A JSON string literal holds no white space here and its quotes stop
\* every pattern, so a text is redacted word by word.
redactSensitiveText(text) ==
    CASE text = "ann@example.com" -> "a***@example.com"
      [] text = "password=hunter2" -> "password=[REDACTED]"
      [] text = "sk_live_0123456789abcdefghij" -> "sk_l***ij"
      [] OTHER -> text

\* String(value) as a template literal prints it
WordOf(value) ==
    CASE value.t \in {"string", "literal"} -> value.s
      [] value.t = "undefined" -> "undefined"
      [] OTHER -> "[object Object]"

\* what formatStepSummary reads off the step safeStepForLogging returned:
\* isNull for null, "" for a value the code takes as false
NullView ==
    [isNull |-> TRUE, action |-> "", url |-> "", query |-> "", hasSelector |-> FALSE,
     selector |-> "", text |-> "", length |-> "", submit |-> FALSE, ms |-> "", tabId |-> ""]

\* safeStepForLogging of an element of the response's plan
RawStepView(value) ==
    IF value = JNull THEN NullView
    ELSE LET url == Get(value, "url")
             query == Get(value, "query")
             text == Get(value, "text")
             fields == Get(value, "fields")
             redacted(v) == IF v.t = "string" THEN redactSensitiveText(v.s) ELSE WordOf(v)
         IN [isNull |-> FALSE,
             action |-> WordOf(Get(value, "action")),
             url |-> redacted(url),
             query |-> redacted(query),
             hasSelector |-> Truthy(Get(value, "selector")),
             selector |-> WordOf(Get(value, "selector")),
             text |-> redacted(text),
             length |-> CASE fields.t = "array" -> ToString(Len(fields.kids))
                          [] fields.t = "string" -> ToString(fields.len)
                          [] fields.t = "undefined" \/ fields = JNull -> ""
                          [] OTHER -> "undefined",
             submit |-> Truthy(Get(value, "submit")),
             ms |-> WordOf(Get(value, "ms")),
             tabId |-> WordOf(Get(value, "tabId"))]

\* safeStepForLogging of a step of the sanitized plan
StepView(step) ==
    [isNull |-> FALSE,
     action |-> step.action,
     url |-> redactSensitiveText(step.url),
     query |-> redactSensitiveText(step.query.tag),
     hasSelector |-> step.selector.len > 0,
     selector |-> IF step.selector.len > 0 THEN step.selector.tag ELSE "undefined",
     text |-> redactSensitiveText(step.text.tag),
     length |-> ToString(Len(step.fields)),
     submit |-> step.submit,
     ms |-> ToString(step.num),
     tabId |-> ToString(step.tabId)]

\* formatStepSummary: threw when reading a property of null or of undefined
\* raises a TypeError, else the words of the summary
formatStepSummary(view) ==
    IF view.isNull \/ (view.action = "FILL_FORM" /\ view.length = "")
    THEN [threw |-> TRUE, words |-> <<>>]
    ELSE [threw |-> FALSE,
          words |->
            CASE view.action \in {"NAVIGATE", "OPEN_TAB"} -> <<view.action, view.url>>
              [] view.action \in {"GOOGLE_SEARCH", "SEARCH_YOUTUBE"} ->
                   <<view.action, view.query>>
              [] view.action = "CLICK" ->
                   <<view.action, IF view.hasSelector THEN view.selector ELSE view.text>>
              [] view.action = "TYPE" -> <<view.action, view.selector>>
              [] view.action = "FILL_FORM" ->
                   <<view.action, view.length, "field(s)">>
                   \o (IF view.submit THEN <<"+ submit">> ELSE <<>>)
              [] view.action = "WAIT" -> <<view.action, view.ms>>
              [] view.action = "SWITCH_TAB" -> <<view.action, view.tabId>>
              [] OTHER -> <<view.action>>]

MAX_TODOS == 12

\* the todos of a planner output are the planner's (fromPlan false) or the
\* ones buildTodosFromPlan derives from the steps of the plan
PlannerTodos(items) == [fromPlan |-> FALSE, items |-> items]
NoTodos == PlannerTodos(<<>>)

\* buildTodosFromPlan: threw when formatStepSummary throws on one of the
\* first MAX_TODOS steps
buildTodosFromPlan(steps) ==
    [threw |-> \E i \in 1..Min(Len(steps), MAX_TODOS) :
                  formatStepSummary(RawStepView(steps[i])).threw,
     todos |-> [fromPlan |-> TRUE, items |-> Slice(steps, MAX_TODOS)]]

\* sanitizeText(value, 240) of a todo text, as words; the texts of the
\* responses are shorter than the cut
TodoText(value) == IF value.t = "string" /\ value.len > 0 THEN <<value.s>> ELSE <<>>

\* a || b || c || d || ''
RECURSIVE FirstTruthy(_, _)
FirstTruthy(value, keys) ==
    IF keys = <<>> THEN JStr("", 0)
    ELSE IF Truthy(Get(value, Head(keys))) THEN Get(value, Head(keys))
    ELSE FirstTruthy(value, Tail(keys))

IsObject(value) == value.t \in {"object", "array"}

\* the body of sanitizeTodos' loop for a todo of the planner
sanitizeTodo(rawTodo) ==
    IF ~Truthy(rawTodo) THEN <<>>
    ELSE IF rawTodo.t = "string"
    THEN <<[task |-> TodoText(rawTodo), reason |-> <<>>, action |-> JNull]>>
    ELSE IF ~IsObject(rawTodo) THEN <<>>
    ELSE LET task == TodoText(FirstTruthy(rawTodo, <<"task", "title", "todo", "step">>))
             reason == TodoText(FirstTruthy(rawTodo, <<"reason", "why">>))
             action == Get(rawTodo, "action")
         IN IF task = <<>> THEN <<>>
            ELSE <<[task |-> task, reason |-> reason,
                    action |-> IF IsObject(action) THEN action ELSE JNull]>>

\* the same for the todo buildTodosFromPlan made of the step at index
builtTodo(index, step) ==
    [task |-> <<"Step", ToString(index)>> \o formatStepSummary(RawStepView(step)).words,
     reason |-> <<>>,
     action |-> IF IsObject(step) THEN step ELSE JNull]

RECURSIVE sanitizeTodosFrom(_, _)
sanitizeTodosFrom(rawTodos, index) ==
    IF index > Min(Len(rawTodos.items), MAX_TODOS) THEN <<>>
    ELSE (IF rawTodos.fromPlan THEN <<builtTodo(index, rawTodos.items[index])>>
          ELSE sanitizeTodo(rawTodos.items[index]))
         \o sanitizeTodosFrom(rawTodos, index + 1)

sanitizeTodos(rawTodos) == sanitizeTodosFrom(rawTodos, 1)

\* a JSON value as the text sanitizeText is given, and as a raw form field
\* and a raw step of sanitizePlan; the steps of the responses carry no
\* target, tab id, delay or numeric limit
TextOf(value) == IF value.t = "string" THEN Str(value.len, value.s) ELSE NotText

AsRawField(value) ==
    [RawField(IsObject(value), TextOf(Get(value, "value")), TextOf(Get(value, "name")),
              TextOf(Get(value, "type")))
       EXCEPT !.label = TextOf(Get(value, "label")),
              !.placeholder = TextOf(Get(value, "placeholder"))]

AsRawStep(value) ==
    LET action == Get(value, "action")
        url == Get(value, "url")
        fields == Get(value, "fields")
    IN [RawStep(IF action.t = "string" THEN action.s ELSE NotAString)
          EXCEPT !.obj = IsObject(value),
                 !.url = IF url.t = "string" THEN url.s ELSE NotAString,
                 !.message = TextOf(Get(value, "message")),
                 !.query = TextOf(Get(value, "query")),
                 !.text = TextOf(Get(value, "text")),
                 !.selector = TextOf(Get(value, "selector")),
                 !.isArray = (fields.t = "array"),
                 !.fields = [i \in 1..Len(fields.kids) |-> AsRawField(fields.kids[i].val)],
                 !.submit = Truthy(Get(value, "submit"))]

\* an array of JSON values as the plan sanitizePlan is given
AsPlan(steps) == [isArray |-> TRUE, items |-> [i \in 1..Len(steps) |-> AsRawStep(steps[i])]]

MsgNoPlan == "I could not parse a valid execution plan from the model output."
MsgRawOutput == "I could not convert the plan to valid JSON. Raw planner output:"

RECURSIVE Chars(_)
Chars(toks) == IF toks = <<>> THEN 0 ELSE Head(toks).len + Chars(Tail(toks))

\* a planner output whose plan is one REPLY; echo is the part of the
\* response the message of that REPLY quotes
ReplyOutput(tag, echo) ==
    [analysis |-> EmptyText, todos |-> NoTodos, echo |-> echo,
     plan |-> [isArray |-> TRUE,
               items |-> <<[RawStep("REPLY") EXCEPT !.message = Str(64 + Chars(echo), tag)]>>]]

\* the planner output of a text that JSON.parse took or refused
PlannerOutput(text, decoded) ==
    LET parsed == decoded.val
        fallback == ReplyOutput(MsgRawOutput, TakeChars(text, 1000))
    IN IF ~decoded.ok THEN fallback
       ELSE IF parsed.t = "array"
       THEN LET built == buildTodosFromPlan(Items(parsed))
            IN IF built.threw THEN fallback
               ELSE [analysis |-> EmptyText, todos |-> built.todos, echo |-> <<>>,
                     plan |-> AsPlan(Items(parsed))]
       ELSE IF parsed.t = "object"
       THEN LET steps == IF Get(parsed, "plan").t = "array" THEN Items(Get(parsed, "plan"))
                         ELSE IF Get(parsed, "actions").t = "array"
                         THEN Items(Get(parsed, "actions"))
                         ELSE IF Get(parsed, "steps").t = "array"
                         THEN Items(Get(parsed, "steps"))
                         ELSE <<>>
                 built == IF Get(parsed, "todos").t = "array"
                          THEN [threw |-> FALSE,
                                todos |-> PlannerTodos(Items(Get(parsed, "todos")))]
                          ELSE buildTodosFromPlan(steps)
                 analysis == IF Get(parsed, "analysis").t = "string"
                             THEN TextOf(Get(parsed, "analysis"))
                             ELSE TextOf(Get(parsed, "summary"))
            IN IF built.threw THEN fallback
               ELSE [analysis |-> sanitizeText(analysis, 700), todos |-> built.todos,
                     echo |-> <<>>, plan |-> AsPlan(steps)]
       ELSE fallback

parsePlannerResponse(response) ==
    IF response = <<>> THEN ReplyOutput(MsgNoPlan, <<>>)
    ELSE Once(LAMBDA text : Once(LAMBDA decoded : PlannerOutput(text, decoded), JSONparse(text)),
              cleaned(response))

\* the words of a text the run shows; the REPLY of the parse fallback
\* quotes the response
MessageWords(message, echo) ==
    IF message.tag = MsgRawOutput
    THEN <<MsgRawOutput>> \o [i \in 1..Len(echo) |-> redactSensitiveText(echo[i].text)]
    ELSE <<redactSensitiveText(message.tag)>>

RECURSIVE TodoLines(_, _)
TodoLines(kept, index) ==
    IF index > Min(Len(kept), 6) THEN <<>>
    ELSE kept[index].task \o kept[index].reason \o TodoLines(kept, index + 1)

renderTodosPreview(kept) == <<"Todos:">> \o TodoLines(kept, 1)

RECURSIVE PlanLines(_, _)
PlanLines(steps, index) ==
    IF index > Min(Len(steps), 6) THEN <<>>
    ELSE formatStepSummary(StepView(steps[index])).words \o PlanLines(steps, index + 1)

renderPlanPreview(steps) == <<"Plan:">> \o PlanLines(steps, 1)

\* what the step loop logs and appends from the step at index up to its
\* first await: the approval or the dispatch of the first step that is no REPLY
RECURSIVE LoopShown(_, _, _)
LoopShown(steps, index, echo) ==
    IF index > Len(steps) THEN <<>>
    ELSE <<(<<"Step", ToString(index)>> \o formatStepSummary(StepView(steps[index])).words)>>
         \o (IF steps[index].action = "REPLY"
             THEN <<MessageWords(steps[index].message, echo)>>
                  \o LoopShown(steps, index + 1, echo)
             ELSE <<>>)

\* the plan processAgentCommand settles on: the sanitized plan, or the
\* sanitized todo actions when that plan is empty
FinalPlan(first, kept, target) ==
    IF first = <<>>
    THEN sanitizePlan(AsPlan(SelectSeq([i \in 1..Len(kept) |-> kept[i].action], IsObject)),
                      target)
    ELSE first

\* the texts processAgentCommand appends to the chat and to the log, from
\* the analysis to the first await of the step loop, that carry parts of
\* the response
ShownTexts(plannerOutput, kept, final) ==
    (IF plannerOutput.analysis # EmptyText
     THEN <<(<<"Analysis:", plannerOutput.analysis.tag>>)>> ELSE <<>>)
    \o (IF kept # <<>> THEN <<renderTodosPreview(kept)>> ELSE <<>>)
    \o (IF final = <<>>
        THEN <<(<<"Error:", "Planner returned an empty action plan.">>)>>
        ELSE <<renderPlanPreview(final)>> \o LoopShown(final, 1, plannerOutput.echo))

\* processAgentCommand from the response of generateChatResponse to the first
\* await of the step loop, in a run that was not stopped
PlanningOutcome(response, target) ==
    Once(LAMBDA plannerOutput :
           Once(LAMBDA kept :
                  Once(LAMBDA final :
                         [candidate |-> plannerOutput.plan, todos |-> kept, plan |-> final,
                          shown |-> ShownTexts(plannerOutput, kept, final)],
                       FinalPlan(sanitizePlan(plannerOutput.plan, target), kept, target)),
                sanitizeTodos(plannerOutput.todos)),
         parsePlannerResponse(response))

PlanFromResponse ==
    /\ ~planned
    /\ \E outcome \in {PlanningOutcome(rawResponse, defaultTarget)} :
          /\ candidate' = outcome.candidate
          /\ todos' = outcome.todos
          /\ plan' = outcome.plan
          /\ shown' = outcome.shown
    /\ planned' = TRUE
    /\ UNCHANGED <<rawResponse, defaultTarget, bgVars, browserVars, panelVars>>

\* the responses: the planner answers a request to log in
MaxResponseSteps == 2

SecretValue == "hunter2"

\* a string of the responses; all are shorter than the cuts of the sanitizer
JText(text) == JStr(text, 8)

ActionStep(action, members) == JObj(<<Member("action", JText(action))>> \o members)

PasswordField ==
    JObj(<<Member("name", JText("password")), Member("type", JText("password")),
           Member("value", JText(SecretValue))>>)

ResponseSteps ==
    {ActionStep("NAVIGATE", <<Member("url", JText("https://example.com"))>>),
     ActionStep("FILL_FORM", <<Member("fields", JArr(<<PasswordField>>)),
                               Member("submit", JLit("true"))>>),
     ActionStep("FILL_FORM", <<>>),
     ActionStep("REPLY", <<Member("message", JText("Signed in."))>>),
     JNull}

ResponsePlans == UNION {[1..n -> ResponseSteps] : n \in 0..MaxResponseSteps}

\* the todos member of the envelope: absent, empty, a text, or a task
\* linked to an action that the plan may not hold
ResponseTodos ==
    {<<>>,
     <<Member("todos", JArr(<<>>))>>,
     <<Member("todos", JArr(<<JText("Open the site")>>))>>,
     <<Member("todos",
              JArr(<<JObj(<<Member("task", JText("Open the shop")),
                            Member("reason", JText("to sign in")),
                            Member("action",
                                   ActionStep("NAVIGATE",
                                              <<Member("url", JText("https://shop.test/"))>>))>>)>>))>>}

Envelope(todoMember, steps) ==
    JObj(<<Member("analysis", JText("The user wants to sign in."))>> \o todoMember
         \o <<Member("plan", JArr(steps))>>)

\* the envelope as asked for, the same between the two marks of a code
\* fence, after a word of
\* prose, wrapped in an array or cut short; a bare array of steps; no answer
Responses ==
    {Render(Envelope(todoMember, steps)) : todoMember \in ResponseTodos, steps \in ResponsePlans}
    \cup {<<Fence("json fence")>> \o Render(Envelope(<<>>, steps)) \o <<Fence("fence")>> :
            steps \in ResponsePlans}
    \cup {<<Prose("Sure:")>> \o Render(Envelope(<<>>, steps)) : steps \in ResponsePlans}
    \cup {Render(JArr(<<Envelope(<<>>, steps)>>)) : steps \in ResponsePlans}
    \cup {LET text == Render(Envelope(<<>>, steps)) IN SubSeq(text, 1, Len(text) - 1) :
            steps \in ResponsePlans}
    \cup {Render(JArr(steps)) : steps \in ResponsePlans}
    \cup {<<>>, <<Prose("Sorry,"), Prose("no.")>>}

InitPlanner ==
    /\ BgInit
    /\ PageIdle
    /\ DomIdle
    /\ PanelIdle
    /\ openTabs = 1
    /\ tabUrl = [t \in Tabs |-> "https://example.com/"]
    /\ defaultTarget \in {TargetActive, TargetAll}
    /\ rawResponse \in Responses
    /\ candidate = NoCandidate
    /\ plan = <<>>
    /\ planned = FALSE
    /\ todos = <<>>
    /\ shown = <<>>

NextPlanner == PlanFromResponse

SpecPlanner == InitPlanner /\ [][NextPlanner]_vars

(***************************************************************************)
(* SpecChat: the send button of the side panel in chat mode.  An           *)
(* invocation of handleSendMessage is followed through its two awaits: the *)
(* identity classifier of getBrandedIdentityResponse and the chat          *)
(* completion.  The user clicks the button (or presses Enter) and edits    *)
(* the input box at any time.  What the code reads off the text is its     *)
(* kind: empty after trimming, answered locally by                         *)
(* getLocalChatModeResponse, potentially identity-related, or plain.       *)
(***************************************************************************)
MaxSends == 3

TextKinds == {"empty", "local", "related", "plain"}

Handler(id, pc) == [id |-> id, pc |-> pc]

\* the invocations of handleSendMessage without the one that returned
Without(handlers, id) == SelectSeq(handlers, LAMBDA h : h.id # id)

\* updateProcessingUI(true) after currentAbortController = new AbortController()
StartProcessing(id) ==
    /\ isProcessing' = TRUE
    /\ stopRequested' = FALSE
    /\ signalAborted' = FALSE
    /\ currentRunId' = ""

\* updateProcessingUI(false)
StopProcessing ==
    /\ isProcessing' = FALSE
    /\ stopRequested' = FALSE
    /\ signalAborted' = FALSE
    /\ currentRunId' = ""

\* handleSendMessage from appendMessage(text, 'user-msg') to its return or to
\* the await of the chat completion
SendChat(from, id, localChatResponse) ==
    IF localChatResponse
    THEN /\ chat' = [from EXCEPT !.input = "empty", !.userMsgs = @ + 1,
                                 !.handlers = Without(@, id)]
         /\ UNCHANGED <<isProcessing, stopRequested, signalAborted, currentRunId>>
    ELSE /\ chat' = [from EXCEPT !.input = "empty", !.userMsgs = @ + 1, !.controller = id,
                                 !.handlers = Append(Without(@, id), Handler(id, "generate"))]
         /\ StartProcessing(id)

\* handleSendMessage in chat mode up to its first await that is not settled
\* at once: the classifier's request, or the chat completion
handleChatMessage ==
    LET id == chat.started + 1
        started == [chat EXCEPT !.started = id]
    IN CASE chat.input = "empty" ->
                UNCHANGED <<chat, isProcessing, stopRequested, signalAborted, currentRunId>>
         [] chat.input = "local" -> SendChat(started, id, TRUE)
         [] chat.input = "related" /\ chat.apiKey ->
                /\ chat' = [started EXCEPT !.handlers = Append(@, Handler(id, "classifier"))]
                /\ UNCHANGED <<isProcessing, stopRequested, signalAborted, currentRunId>>
         [] OTHER ->
                IF chat.needsKey /\ ~chat.apiKey
                THEN /\ chat' = started
                     /\ UNCHANGED <<isProcessing, stopRequested, signalAborted, currentRunId>>
                ELSE SendChat(started, id, FALSE)

\* stopCurrentProcess in chat mode: the abort rejects the chat completion
\* awaited with the signal of currentAbortController, and the catch and
\* finally of that invocation run
stopChat ==
    /\ chat' = [chat EXCEPT !.controller = 0, !.handlers = Without(@, chat.controller)]
    /\ StopProcessing

\* handleSendButtonClick, for a click on the button and for Enter
handleSendButtonClick ==
    /\ chat.started < MaxSends
    /\ IF isProcessing THEN stopChat ELSE handleChatMessage

\* the classifier's request of getBrandedIdentityResponse settles; a
\* rejection counts as unrelated
ClassifierReply ==
    \E i \in 1..Len(chat.handlers) :
        /\ chat.handlers[i].pc = "classifier"
        /\ \E related \in BOOLEAN : SendChat(chat, chat.handlers[i].id, related)

\* the chat completion settles, with a text or with an error: the try, the
\* catch and the finally of handleSendMessage
ChatReply ==
    \E i \in 1..Len(chat.handlers) :
        /\ chat.handlers[i].pc = "generate"
        /\ chat' = [chat EXCEPT !.controller = 0,
                                !.handlers = Without(@, chat.handlers[i].id)]
        /\ StopProcessing

\* the user edits the input box
EditInput ==
    /\ \E text \in TextKinds : chat' = [chat EXCEPT !.input = text]
    /\ UNCHANGED <<isProcessing, stopRequested, signalAborted, currentRunId>>

\* an event of the chat leaves the agent's run alone
Chat(event) ==
    /\ event
    /\ UNCHANGED <<bgVars, browserVars, planVars, prompt, run, pendingApprovalResolver,
                   outbox, cancelRequested, card>>

InitChat ==
    /\ BgInit
    /\ PageIdle
    /\ DomIdle
    /\ PlanIdle
    /\ openTabs = 1
    /\ tabUrl = [t \in Tabs |-> "https://example.com/"]
    /\ prompt = NoPrompt
    /\ run = NoRun
    /\ isProcessing = FALSE
    /\ stopRequested = FALSE
    /\ signalAborted = FALSE
    /\ pendingApprovalResolver = FALSE
    /\ currentRunId = ""
    /\ outbox = <<>>
    /\ cancelRequested = FALSE
    /\ card = NoCard
    /\ \E text \in TextKinds, apiKey \in BOOLEAN, needsKey \in BOOLEAN :
          chat = [NoChat EXCEPT !.input = text, !.apiKey = apiKey, !.needsKey = needsKey]

NextChat ==
    \/ Chat(handleSendButtonClick)
    \/ Chat(ClassifierReply)
    \/ Chat(ChatReply)
    \/ Chat(EditInput)

SpecChat == InitChat /\ [][NextChat]_vars

(***************************************************************************)
(* Properties of the background service worker (checked under SpecBg).    *)
(***************************************************************************)

\* the failures the round-trip is retried on: receiving end missing, frame
\* error page, restricted-page access error, missing permission, timeout
TransientFailures == {MsgNoReceiver, MsgNoAccess, MsgTimedOut, MsgRestricted}

\* the runtime messages the step under consideration sends
Sent ==
    IF Len(outbox') > Len(outbox) THEN SubSeq(outbox', Len(outbox) + 1, Len(outbox')) ELSE <<>>

\* C1: a run whose cancellation was requested ends in the stopped outcome:
\* no step counted as failed, no remediation message, no run summary, and
\* no 'Agent execution failed' error.
C1_CancelMeansStopped ==
    (cancelRequested /\ Terminal(run.pc)) =>
        /\ run.pc = "stopped"
        /\ "Process stopped." \in run.appended
        /\ run.failureCount = 0
        /\ "I could not complete" \notin run.appended
        /\ "Run summary" \notin run.appended
        /\ run.thrown = MsgNone

\* C2: once cancellation is requested (stop flag set or signal aborted), no
\* EXECUTE_AGENT_PLAN message is sent: not for a later step, not for a
\* recovery analysis, not for a recovery retry.
C2_NoDispatchAfterCancel ==
    [][(\E i \in 1..Len(Sent) : Sent[i].type = "EXECUTE_AGENT_PLAN") =>
          (~stopRequested /\ ~signalAborted /\ ~cancelRequested')]_vars

\* the stop came while steps remained, and the run ended without them
C2_Witness ==
    /\ cancelRequested
    /\ Terminal(run.pc)
    /\ planned
    /\ run.index < Len(plan)
    /\ run.successCount >= 1
    /\ plan[run.index + 1].action # "REPLY"

\* C3: a step classified high-risk is sent to the worker only after the
\* approval request of that very step resolved with approved = true.
C3_ApprovalBeforeDispatch ==
    [][\A i \in 1..Len(Sent) :
          (/\ Sent[i].type = "EXECUTE_AGENT_PLAN"
           /\ run'.pc \in {"dispatch", "retry"}
           /\ classifyStepRisk(Sent[i].plan, prompt, run'.currentHost) = "high")
          => (/\ run'.approval = "approved"
              /\ Sent[i].plan = plan'[run'.index])]_vars

C3_Witness ==
    /\ run.pc = "dispatch"
    /\ run.risk = "high"
    /\ run.approval = "approved"
    /\ jobPc = "fanout"
    /\ jobPlan = plan[run.index]

TargetModes == {"active", "all", "tab_id", "domain", "url_contains"}

\* C4: for every candidate plan and every valid default target, sanitizePlan
\* returns at most 20 steps, each with an action of the allowed set, and each
\* step other than REPLY carries a Target Spec with one of the five modes.
C4_SanitizedPlan ==
    planned =>
        /\ Len(plan) <= 20
        /\ \A i \in 1..Len(plan) :
              /\ plan[i].action \in
                   {"NAVIGATE", "SEARCH_YOUTUBE", "GOOGLE_SEARCH", "PLAY_MEDIA", "CLICK", "TYPE",
                    "FILL_FORM", "ANALYZE_PAGE", "SCRAPE_PAGE", "VISUALIZE_PAGE", "OPEN_TAB",
                    "SWITCH_TAB", "WAIT", "REPLY"}
              /\ plan[i].action # "REPLY" => plan[i].target.mode \in TargetModes

\* a candidate of more than 20 acceptable steps, cut to exactly 20, whose
\* first step took its target from the default
C4_Witness ==
    /\ planned
    /\ candidate.isArray
    /\ Len(candidate.items) > 20
    /\ Len(plan) = 20
    /\ plan[1].action = "VISUALIZE_PAGE"
    /\ plan[1].target = defaultTarget
    /\ defaultTarget.mode = "domain"

\* C5: when a dispatch to N >= 1 resolved tabs returns, it returns exactly N
\* per-tab results, the i-th for the i-th resolved tab, and its status is
\* success if and only if at least one per-tab result is success.
C5_FanOutResults ==
    (jobPc = "done" /\ jobTabs # <<>>) =>
        /\ Len(jobResponse.results) = Len(jobTabs)
        /\ \A i \in 1..Len(jobTabs) : jobResponse.results[i].tabId = jobTabs[i]
        /\ \A i \in 1..Len(jobTabs) : jobResponse.results[i].status \in {"success", "error"}
        /\ jobResponse.status \in {"success", "error"}
        /\ (jobResponse.status = "success") <=>
               (\E i \in 1..Len(jobTabs) : jobResponse.results[i].status = "success")

\* a dispatch to several tabs returned with one tab failed and one succeeded
C5_Witness ==
    /\ jobPc = "done"
    /\ Len(jobTabs) >= 2
    /\ jobResponse.status = "success"
    /\ \E i \in 1..Len(jobTabs) : jobResponse.results[i].status = "error"

\* C6: the round-trip of one content action on one tab is attempted at most 8
\* times; a backoff (and so a further attempt) is entered only with a
\* transient failure of an attempt before the 8th, and the attempt counter
\* advances only out of such a backoff.
C6_BoundedRetry ==
    [][\A t \in Tabs :
        /\ attempt'[t] <= 8
        /\ (tabPc'[t] = "backoff" =>
                caught'[t] \in TransientFailures /\ attempt'[t] < 8)
        /\ (attempt[t] >= 1 /\ attempt'[t] = attempt[t] + 1) =>
                (tabPc[t] = "backoff" /\ caught[t] \in TransientFailures)]_vars

\* the 8th attempt of a round-trip is in flight
C6_Witness == \E t \in Tabs : attempt[t] = 8 /\ tabPc[t] = "send"

\* C7: a content action on a restricted page is never retried: the
\* restricted-page error never sends the round-trip into its backoff.
C7_RestrictedFailsFast == \A t \in Tabs : ~(tabPc[t] = "backoff" /\ caught[t] = MsgRestricted)

\* C8: once a run's cancellation flag is true, no step sets it back to false.
C8_CancelMonotonic ==
    [][\A r \in RunIds : isCanceled(RUN_STATES, r) => isCanceled(RUN_STATES', r)]_vars

\* C9: cancellation triggers neither retry nor recovery: runContentAction
\* does not back off for another attempt after the cancellation error, and
\* the orchestrator starts no recovery analysis and no recovery retry of a
\* step once its dispatch ended by cancellation.
C9_CancelNoRetryNoRecovery ==
    [][/\ \A t \in Tabs : tabPc'[t] = "backoff" => caught'[t] # "Run was canceled."
       /\ (run.pc = "dispatch" /\ run'.pc = "analysis") =>
             (~cancelRequested' /\ run'.recoveryError \notin {"Run was canceled.",
                                                               "Request canceled"})
       /\ (run.pc = "analysis" /\ run'.pc = "retry") => ~cancelRequested']_vars

\* the stop reached a content round-trip of a recoverable step: the worker
\* settled it with the cancellation error, the run ended after one dispatch
C9_Witness ==
    /\ cancelRequested
    /\ Terminal(run.pc)
    /\ jobPlan.action \in {"CLICK", "TYPE", "FILL_FORM"}
    /\ \E t \in Tabs : results[t] = ErrorResult(MsgCanceled) /\ tabPc[t] = "settled"
    /\ run.dispatches = 1
    /\ run.analyses = 0

\* C10: a step is dispatched at most twice and re-analysed at most once; a
\* second dispatch happens only after the one analysis, and only for CLICK,
\* TYPE or FILL_FORM whose first failure was a resolution failure; a step
\* past its gates has been dispatched at least once.
C10_OneRecovery ==
    /\ run.dispatches <= 2
    /\ run.analyses <= 1
    /\ run.pc \in {"dispatch", "analysis", "retry", "delay"} => run.dispatches >= 1
    /\ (run.analyses = 1 \/ run.dispatches = 2) =>
          /\ run.index \in 1..Len(plan)
          /\ plan[run.index].action \in {"CLICK", "TYPE", "FILL_FORM"}
          /\ run.recoveryError \in {MsgClickNotFound, MsgInputNotFound, MsgNoFields}
          /\ run.analyses = 1

\* a step recovered: analysed once, dispatched twice, then succeeded
C10_Witness ==
    /\ run.dispatches = 2
    /\ run.analyses = 1
    /\ run.pc = "summary"
    /\ run.failureCount = 0
    /\ run.successCount >= 1

\* C11: once a step has failed, the run is over: the failing slice ends in
\* the run summary, sends no EXECUTE_AGENT_PLAN, opens no approval card, and
\* the run never changes again, so the remaining steps are never executed.
C11_FailureAbortsRun ==
    [][run'.failureCount >= 1 =>
          /\ \A i \in 1..Len(Sent) : Sent[i].type # "EXECUTE_AGENT_PLAN"
          /\ run'.pc = "summary"
          /\ ~pendingApprovalResolver'
          /\ run.failureCount >= 1 => run' = run]_vars

\* the recovery retry of a step failed while steps remained, without a stop
C11_Witness ==
    /\ run.failureCount = 1
    /\ run.dispatches = 2
    /\ ~cancelRequested
    /\ run.index < Len(plan)
    /\ plan[run.index + 1].action # "REPLY"

\* C12: when the approval card of a high-risk step is answered by deny or by
\* its timeout, the step is not dispatched and is counted as skipped, nothing
\* is counted as failed, and the run goes on in order: the REPLY steps that
\* follow are delivered and the next other step is started, or the run ends
\* in its summary when no step is left.
C12_DenialSkipsStep ==
    [][(/\ run.pc = "approval"
        /\ run' # run
        /\ ~cancelRequested'
        /\ ~(run'.approval = "approved" /\ run'.index = run.index))
       => (/\ run'.skippedCount = run.skippedCount + 1
           /\ run'.failureCount = run.failureCount
           /\ run'.index > run.index
           /\ \A j \in (run.index + 1)..(run'.index - 1) : plan[j].action = "REPLY"
           /\ run'.successCount = run.successCount + (run'.index - run.index - 1)
           /\ IF run'.index <= Len(plan)
              THEN /\ plan[run'.index].action # "REPLY"
                   /\ run'.pc \in {"approval", "dispatch"}
                   /\ run'.dispatches = IF run'.pc = "dispatch" THEN 1 ELSE 0
              ELSE /\ run'.pc = "summary"
                   /\ \A i \in 1..Len(Sent) : Sent[i].type # "EXECUTE_AGENT_PLAN")]_vars

\* a step was skipped and the step after it succeeded
C12_Witness ==
    /\ run.skippedCount = 1
    /\ run.successCount = 1
    /\ run.pc = "summary"
    /\ run.index = 2
    /\ plan[1].action = "CLICK"
    /\ plan[2].action = "WAIT"
    /\ ~cancelRequested

\* C13: the plan sanitizePlan returns is never empty: a candidate that is
\* not an array, and an array none of whose first 20 items sanitizes to a
\* step, both give a plan of exactly one REPLY step with a non-empty message.
C13_NeverEmptyPlan ==
    planned =>
        /\ Len(plan) >= 1
        /\ ( \/ ~candidate.isArray
             \/ \A j \in 1..Min(Len(candidate.items), 20) :
                   sanitizeStep(candidate.items[j], defaultTarget) = <<>> )
           => /\ Len(plan) = 1
              /\ plan[1].action = "REPLY"
              /\ plan[1].message.len > 0

\* an array of several items, none of them a valid step, sanitized to the
\* single fallback REPLY
C13_Witness ==
    /\ planned
    /\ candidate.isArray
    /\ Len(candidate.items) >= 2
    /\ \A j \in 1..Len(candidate.items) : candidate.items[j].action # "REPLY"
    /\ Len(plan) = 1
    /\ plan[1].action = "REPLY"

\* C14: when the fan-out has settled and every resolved tab failed, the
\* response has status error, its message is the error of the first resolved
\* tab, and it carries one result per resolved tab, in order, equal to that
\* tab's own result. Every resolved tab gets a result, and a step in which one
\* tab's result becomes an error changes no other tab's result or progress.
C14_AllTabsFail ==
    /\ [](jobPc = "done" /\ jobTabs # <<>> =>
            /\ \A t \in Range(jobTabs) : results[t].status \in {"success", "error"}
            /\ Len(jobResponse.results) = Len(jobTabs)
            /\ \A i \in 1..Len(jobTabs) :
                  /\ jobResponse.results[i].tabId = jobTabs[i]
                  /\ jobResponse.results[i].status = results[jobTabs[i]].status
                  /\ jobResponse.results[i].error = results[jobTabs[i]].error
            /\ (\A t \in Range(jobTabs) : results[t].status = "error") =>
                  /\ jobResponse.status = "error"
                  /\ jobResponse.error = results[jobTabs[1]].error)
    /\ [][\A t \in Tabs :
            (jobPc = "fanout" /\ results'[t] # results[t] /\ results'[t].status = "error")
            => \A u \in Tabs \ {t} :
                  /\ results'[u] = results[u]
                  /\ tabPc'[u] = tabPc[u]
                  /\ attempt'[u] = attempt[u]]_vars

\* two resolved tabs that failed with different errors, reported
C14_Witness ==
    /\ jobPc = "done"
    /\ Len(jobTabs) = 2
    /\ results[jobTabs[1]].status = "error"
    /\ results[jobTabs[2]].status = "error"
    /\ results[jobTabs[1]].error # results[jobTabs[2]].error
    /\ jobResponse.results[2].error = results[jobTabs[2]].error

(***************************************************************************)
(* Properties of one content action on one tab (checked under SpecTab).    *)
(***************************************************************************)

\* C15: while executeScript or the RUN_ACTION round trip of an attempt is
\* under way, the URL that attempt observed for the tab (the pending URL when
\* the tab has one, else its current URL) is not restricted.  When
\* waitForTabReady returns a tab whose observed URL is restricted, the attempt
\* ends in the browser-internal-pages error without touching the document.
C15_RestrictedNeverInjected ==
    /\ [](tabPc[ObservedTab] \in {"inject", "send"} =>
             ~isRestrictedUrl(observedUrl(lastGot[ObservedTab])))
    /\ [][(/\ tabPc[ObservedTab] \in {"get0", "get", "delay"}
           /\ readyExit'[ObservedTab] \in {"timeout", "restricted", "complete"}
           /\ tabPc'[ObservedTab] \notin {"get0", "get", "delay"}
           /\ isRestrictedUrl(observedUrl(lastGot'[ObservedTab])))
          => /\ \/ /\ tabPc'[ObservedTab] = "backoff"
                   /\ caught'[ObservedTab] = MsgRestricted
                \/ /\ tabPc'[ObservedTab] = "settled"
                   /\ results'[ObservedTab] = ErrorResult(MsgRestricted)
             /\ listeners' = listeners
             /\ listenerInstalled' = listenerInstalled
             /\ delivered' = delivered]_vars

\* the content action failed with the browser-internal-pages error on a tab
\* that was heading for a restricted page, and nothing was installed
C15_Witness ==
    /\ tabPc[ObservedTab] = "settled"
    /\ results[ObservedTab] = ErrorResult(MsgRestricted)
    /\ lastGot[ObservedTab].pendingUrl = "chrome://settings"
    /\ lastGot[ObservedTab].url = "https://example.com/"
    /\ listeners[ObservedTab] = 0

\* C16: a step in which waitForTabReady ends is a return or an error.  When
\* it ends because the time elapsed it returns, and what it returns is the
\* tab chrome.tabs.get last resolved to; the same holds when it returns
\* early.  A poll that gets a tab that is load-complete or on a restricted
\* page returns that tab in the same step.  It throws only when the run is
\* canceled, with the cancellation error; the one other error that ends it is
\* the rejection of chrome.tabs.get.  No step of it produces a timeout error.
C16_Waiting == {"get0", "get", "delay"}

C16_TimeoutReturnsLatest ==
    [][/\ (tabPc[ObservedTab] \in C16_Waiting /\ tabPc'[ObservedTab] \notin C16_Waiting) =>
            /\ readyExit'[ObservedTab] \in
                  {"timeout", "restricted", "complete", "canceled", "rejected"}
            /\ caught'[ObservedTab] # MsgTimedOut
            /\ results'[ObservedTab].error # MsgTimedOut
            /\ readyExit'[ObservedTab] \in {"timeout", "restricted", "complete"} =>
                  /\ contentTab'[ObservedTab] = lastGot'[ObservedTab]
                  /\ contentTab'[ObservedTab] # NoTab
                  /\ \/ tabPc'[ObservedTab] = "inject"
                     \/ /\ isRestrictedUrl(observedUrl(contentTab'[ObservedTab]))
                        /\ MsgRestricted \in {caught'[ObservedTab], results'[ObservedTab].error}
            /\ readyExit'[ObservedTab] = "canceled" =>
                  /\ isCanceled(RUN_STATES, ObservedRun)
                  /\ results'[ObservedTab] = ErrorResult(MsgCanceled)
            /\ readyExit'[ObservedTab] = "rejected" =>
                  results'[ObservedTab] = ErrorResult(MsgNoTab)
       /\ (/\ tabPc[ObservedTab] = "get"
           /\ tabPc'[ObservedTab] # "get"
           /\ readyExit'[ObservedTab] # "rejected"
           /\ \/ isRestrictedUrl(observedUrl(ChromeTab(ObservedTab)))
              \/ tabStatus[ObservedTab] \in {"", "complete"}) =>
            /\ tabPc'[ObservedTab] \notin C16_Waiting
            /\ readyExit'[ObservedTab] \in {"restricted", "complete"}
            /\ contentTab'[ObservedTab] = ChromeTab(ObservedTab)]_vars

\* the wait ran out of time on a tab that was still loading a regular page
\* and returned it: the attempt went on to inject
C16_Witness ==
    /\ readyExit[ObservedTab] = "timeout"
    /\ tabPc[ObservedTab] = "inject"
    /\ contentTab[ObservedTab].status = "loading"
    /\ contentTab[ObservedTab] = lastGot[ObservedTab]
    /\ ~isCanceled(RUN_STATES, ObservedRun)

C17_Order ==
    <<"submitSelector", "formSubmitButton", "requestSubmit", "semanticButtonInForm",
      "semanticButtonGlobal">>

C17_Applies(method) ==
    LET form == \E i \in 1..Len(contentStep.fields) :
                    /\ contentStep.fields[i].element # 0
                    /\ elements[contentStep.fields[i].element].react = "keep"
                    /\ elements[contentStep.fields[i].element].form
    IN CASE method = "submitSelector" ->
               contentStep.submitSelector = "#go" /\ page.selector = "visible"
         [] method = "formSubmitButton" -> form /\ page.button = "visible"
         [] method = "requestSubmit" -> form /\ page.requestSubmit
         [] method = "semanticButtonInForm" -> form /\ page.semanticInForm
         [] method = "semanticButtonGlobal" -> page.semanticGlobal

C18_Matches(option, text) ==
    \/ toLowerCase(option.value) = toLowerCase(text)
    \/ TextIncludes(toLowerCase(option.text), toLowerCase(text))

C18_TypeVerified ==
    [][(contentStep.action = "TYPE" /\ handled = NotHandled /\ handled' # NotHandled) =>
          /\ handled'.status \in {"success", "error"}
          /\ handled'.status = "error" => handled'.error \in {MsgInputNotFound, MsgUnverified}
          /\ IF contentStep.element = 0 THEN handled'.status = "error"
             ELSE LET before == elements[contentStep.element]
                      reread == elements'[contentStep.element].value
                      expected == (IF contentStep.clear = "false" THEN before.value ELSE <<>>)
                                     \o contentStep.text
                  IN IF before.kind = "select"
                     THEN /\ handled'.status = "success" =>
                                \E i \in 1..Len(before.options) :
                                    /\ C18_Matches(before.options[i], contentStep.text)
                                    /\ reread = before.options[i].value
                          /\ (\A i \in 1..Len(before.options) :
                                 \/ ~C18_Matches(before.options[i], contentStep.text)
                                 \/ reread # before.options[i].value)
                             => handled'.status = "error"
                     ELSE handled'.status = "success" <=>
                             normalizeText(reread) = normalizeText(expected)]_vars

\* text appended to a field whose page pads what is typed: the value read
\* back differs from the expected one by whitespace only, and TYPE succeeded
C18_Witness ==
    /\ contentStep.action = "TYPE"
    /\ contentStep.clear = "false"
    /\ contentStep.text = <<"a", " ", " ", "b">>
    /\ elements[1].react = "pad"
    /\ elements[1].value = <<"a", "a", " ", " ", "b", " ">>
    /\ handled.status = "success"

\* C19: whenever no auto-revert timer is pending, however the invocations of
\* VISUALIZE_PAGE and the firing of their timers were interleaved, no
\* element carries the accent outline.
C19_NoResidualOutline ==
    timers = <<>> => \A e \in ElementIds : outline[e] # Accent

\* two invocations, the second before the first one's auto-revert, both on
\* an element that had an outline of its own; both timers have fired
C19_Witness ==
    /\ calls = 2
    /\ overlapped
    /\ timers = <<>>
    /\ original[1] = "1px solid red"
    /\ outline[1] = ""

(***************************************************************************)
(* Properties of the step loop and of the planning phase.                  *)
(***************************************************************************)

\* the EXECUTE_AGENT_PLAN messages of the run that have not been answered:
\* those the worker has not received and the one its handler is working on
InFlight ==
    Cardinality({i \in 1..Len(outbox) : outbox[i].type = "EXECUTE_AGENT_PLAN"})
    + (IF jobPc = "idle" THEN 0 ELSE 1)

\* C21: the steps of a run are dispatched in plan order, one at a time.  When
\* an EXECUTE_AGENT_PLAN message leaves, it is the only one in flight and
\* no tab of an earlier fan-out is still being worked on; the first
\* dispatch of a step leaves while the run awaits no response, for a step
\* later in the plan than every step before; the recovery analysis and the
\* recovery retry leave for the same step, after its previous dispatch
\* settled.
C21_StepsInOrder ==
    [][\A i \in 1..Len(Sent) :
          Sent[i].type = "EXECUTE_AGENT_PLAN" =>
             /\ InFlight' = 1
             /\ \A t \in Tabs : tabPc'[t] = "none"
             /\ run'.pc \in {"dispatch", "analysis", "retry"}
             /\ run'.pc = "dispatch" =>
                   /\ run.pc \in {"snapshot", "context", "llm", "approval", "delay"}
                   /\ run'.index > run.index \/ run.pc = "approval"
                   /\ run'.index >= run.index
                   /\ Sent[i].plan = plan'[run'.index]
             /\ run'.pc = "analysis" =>
                   /\ run.pc = "dispatch"
                   /\ run'.index = run.index
                   /\ Sent[i].plan.action = "ANALYZE_PAGE"
             /\ run'.pc = "retry" =>
                   /\ run.pc = "analysis"
                   /\ run'.index = run.index
                   /\ Sent[i].plan = plan'[run'.index]]_vars

\* the second step of the plan is being worked on by the worker, after the
\* first one succeeded
C21_Witness ==
    /\ run.pc = "dispatch"
    /\ run.index = 2
    /\ run.successCount = 1
    /\ jobPc = "fanout"
    /\ jobPlan.action = plan[2].action

C24_CancelAfterSettle ==
    (cancelRequested /\ Terminal(run.pc)) => InFlight = 0

\* C24, amended: a cancellation requested while a dispatch of the run is
\* unanswered leaves the worker's work on that dispatch as it is, and a
\* round trip to a tab ends with the tab's own outcome, never with the
\* cancellation; but the run does not wait: the pending call is rejected
\* in the same step and the run reports its terminal outcome while the
\* dispatch is still in flight.
C24_RunDoesNotWait ==
    [][/\ (cancelRequested' /\ ~cancelRequested /\ run.pc \in {"dispatch", "analysis", "retry"})
          => /\ Terminal(run'.pc)
             /\ InFlight = 1
             /\ InFlight' = 1
             /\ UNCHANGED bgVars
       /\ \A t \in Tabs :
             (tabPc[t] = "send" /\ tabPc'[t] # "send")
             => /\ results'[t].error # MsgCanceled
                /\ caught'[t] # MsgCanceled]_vars

\* the run has reported its outcome after the stop, the worker still awaits
\* the tab's response to the abandoned dispatch and has received the
\* cancellation
C24_Witness ==
    /\ cancelRequested
    /\ Terminal(run.pc)
    /\ jobPc = "fanout"
    /\ tabPc[1] = "send"
    /\ RUN_STATES[ObservedRun].canceled

\* C26: while a NAVIGATE or OPEN_TAB step waits for its approval or for its
\* response, its risk level is high when a last-known host exists and the
\* step's destination host differs from it, and medium otherwise.  The
\* last-known host changes only when the snapshot is answered, to the host
\* of the active tab or to none, and when a step that carries a URL is
\* counted as succeeded, to that step's host.
C26_CrossDomainRisk ==
    [][/\ (run.pc \in {"approval", "dispatch"}
             /\ plan[run.index].action \in {"NAVIGATE", "OPEN_TAB"})
          => run.risk = (IF run.currentHost # ""
                            /\ Hostname(plan[run.index].url) # run.currentHost
                         THEN "high" ELSE "medium")
       /\ run'.currentHost # run.currentHost
          => \/ /\ run.pc = "snapshot"
                /\ run'.currentHost = Hostname(tabUrl[1])
             \/ /\ run.pc \in {"dispatch", "retry"}
                /\ run'.successCount = run.successCount + 1
                /\ run'.failureCount = run.failureCount
                /\ plan[run.index].url # ""
                /\ run'.currentHost = Hostname(plan[run.index].url)]_vars

\* the active tab showed a browser-internal page, so the run started with
\* no host; the first step opened example.com and succeeded, and the
\* second step navigates to shop.test and waits for its approval
C26_Witness ==
    /\ isRestrictedUrl(tabUrl[1])
    /\ run.pc = "approval"
    /\ run.index = 2
    /\ run.successCount = 1
    /\ plan[1].action = "OPEN_TAB"
    /\ plan[2].action = "NAVIGATE"
    /\ run.currentHost = "example.com"
    /\ run.risk = "high"

\* C29: a run calls generateChatResponse at most once, and not at all when
\* the deterministic or the fast plan applies; when the call has settled,
\* rejected or resolved with whatever plan, the run never awaits the
\* planner again.
C29_OnePlanningCall ==
    [][/\ run'.planningCalls <= 1
       /\ prompt.planner # "llm" => run'.planningCalls = 0
       /\ run'.pc = "llm" => run'.planningCalls = 1
       /\ (run.pc = "llm" /\ run' # run)
          => /\ run'.pc # "llm"
             /\ run'.planningCalls = run.planningCalls
       /\ (run.planningCalls = 1 /\ run.pc # "llm") => run'.pc # "llm"]_vars

\* the planning call was rejected, and the run ended with the error it
\* threw after its one call
C29_Witness ==
    /\ prompt.planner = "llm"
    /\ run.pc = "failed"
    /\ run.planningCalls = 1
    /\ run.index = 0
    /\ ~planned

(***************************************************************************)
(* Properties of the plan sanitizer and of the risk classification        *)
(* (checked under SpecSanitize).                                           *)
(***************************************************************************)

\* C25: the sanitized plan is made of the valid steps of the whole candidate
\* plan, in their order, cut to the first 20 of them.
C25_FirstTwentyValid ==
    (planned /\ candidate.isArray) =>
        LET valid == sanitizeSteps(candidate.items, defaultTarget)
        IN valid # <<>> => plan = Slice(valid, 20)

\* C27: while a FILL_FORM step waits for its approval or for its response,
\* its risk level is high if it submits, or the command carries
\* authentication intent, or one of its fields has a name, label, type,
\* placeholder or value that looks like a credential; otherwise it is
\* medium.
C27_FillFormRisk ==
    (run.pc \in {"approval", "dispatch"} /\ plan[run.index].action = "FILL_FORM") =>
        LET step == plan[run.index]
            credential ==
                \E i \in 1..Len(step.fields) :
                    \E text \in {step.fields[i].name, step.fields[i].label,
                                 step.fields[i].type, step.fields[i].placeholder,
                                 step.fields[i].value} :
                        text.tag \in {"password", "passcode", "token", "otp", "secret",
                                      "api key", "apikey"}
        IN run.risk = (IF step.submit \/ prompt.auth \/ credential THEN "high" ELSE "medium")

(***************************************************************************)
(* Properties of the planning phase after the planner answered (checked    *)
(* under SpecPlanner).                                                     *)
(***************************************************************************)

\* the response is a JSON array: its first bracket comes before any brace
ArrayShaped(response) ==
    LET text == StripFences(response)
    IN /\ IndexOf(text, "[") # 0
       /\ IndexOf(text, "{") = 0 \/ IndexOf(text, "[") < IndexOf(text, "{")

\* JSON.parse accepts the text parsePlannerResponse located
Decodes(response) == JSONparse(cleaned(response)).ok

\* the text located decodes to an object with an array under plan, actions
\* or steps
DecodesToEnvelope(response) ==
    LET parsed == JSONparse(cleaned(response))
    IN /\ parsed.ok
       /\ parsed.val.t = "object"
       /\ \E key \in {"plan", "actions", "steps"} : Get(parsed.val, key).t = "array"

ReplyOnly == \A i \in 1..Len(plan) : plan[i].action = "REPLY"

\* a step of the response names a browser action
NamesAction(response, action) == \E i \in 1..Len(response) : response[i].text = action

\* C30, as stated: when the response is a JSON array or cannot be decoded,
\* the plan holds REPLY steps only.
C30_ArrayShapedIsReplyOnly ==
    (planned /\ (ArrayShaped(rawResponse) \/ ~Decodes(rawResponse))) => ReplyOnly

\* C30, amended: when the text located in the response (first brace to last
\* brace, else first bracket to last bracket) cannot be decoded, or decodes
\* to anything but an object with an array under plan, actions or steps,
\* the plan holds REPLY steps only.
C30_NoEnvelopeIsReplyOnly ==
    (planned /\ ~DecodesToEnvelope(rawResponse)) => ReplyOnly

\* a bare array of two steps, one of them NAVIGATE, was planned
C30_Witness ==
    /\ planned
    /\ ArrayShaped(rawResponse)
    /\ ~DecodesToEnvelope(rawResponse)
    /\ NamesAction(rawResponse, "NAVIGATE")
    /\ NamesAction(rawResponse, "FILL_FORM")
    /\ ReplyOnly

\* the response with the todos member of its envelope replaced
WithTodos(response, todoMember) ==
    LET parsed == JSONparse(response)
        others == SelectSeq(parsed.val.kids, LAMBDA member : member.key # "todos")
    IN IF parsed.ok /\ parsed.val.t = "object" THEN Render(JObj(todoMember \o others))
       ELSE response

\* C28: the plan a run executes is the one it would execute had the
\* planner returned any other todos, or none, with the same plan.
C28_TodosNoEffect ==
    planned =>
        \A todoMember \in ResponseTodos :
            PlanningOutcome(WithTodos(rawResponse, todoMember), defaultTarget).plan = plan

\* the response with the value of its credential-typed field replaced
WithSecret(response, value) ==
    [i \in 1..Len(response) |->
        IF response[i].text = SecretValue THEN [response[i] EXCEPT !.text = value]
        ELSE response[i]]

\* C23: what the run shows is what it would show had the credential-typed
\* field of the response carried another value.
C23_SecretNeverShown ==
    planned => PlanningOutcome(WithSecret(rawResponse, "letmein"), defaultTarget).shown = shown

(***************************************************************************)
(* Properties of the run's summary, of its dispatches and of its end       *)
(* (checked under Spec).                                                   *)
(***************************************************************************)

Counted == run.successCount + run.skippedCount + run.failureCount

\* C33: when the run summary is emitted, at most one step failed; without a
\* failure every step of the plan is counted once as completed or skipped,
\* and with a failure the steps up to the failed one are counted once.
C33_SummaryCounts ==
    run.pc = "summary" =>
        /\ run.failureCount \in {0, 1}
        /\ run.failureCount = 0 => Counted = Len(plan)
        /\ run.failureCount = 1 => Counted = run.index /\ run.index <= Len(plan)

\* a summary that counts one skipped and one failed step
C33_Witness ==
    /\ run.pc = "summary"
    /\ run.skippedCount = 1
    /\ run.failureCount = 1
    /\ Counted = 2

\* C36: every step sent to the worker for execution is a step of the plan
\* the sanitizer returned, the step re-analysing the page during recovery
\* included.
C36_DispatchedFromPlan ==
    [][\A i \in 1..Len(Sent) :
          Sent[i].type = "EXECUTE_AGENT_PLAN" =>
              \E j \in 1..Len(plan') : plan'[j] = Sent[i].plan]_vars

(***************************************************************************)
(* Properties of one content action on one tab (checked under SpecTab).    *)
(***************************************************************************)

\* C37: while a CLICK or a TYPE is dispatched to the tab, handleAction has
\* run it at most once, and a further attempt is started only when it has
\* not run at all.
C37_EffectAtMostOnce ==
    /\ ran <= 1
    /\ tabPc[ObservedTab] = "backoff" => ran = 0

(***************************************************************************)
(* Further properties of the content script (checked under SpecContent).   *)
(***************************************************************************)

\* C39: whenever no auto-revert timer is pending, every element has the
\* inline outline it had before the first invocation of VISUALIZE_PAGE,
\* also when an invocation ran before the timer of an earlier one fired.
C39_OriginalOutlineRestored ==
    timers = <<>> => \A e \in ElementIds : outline[e] = original[e]

\* how many of the three lists hold the descriptor
ListsHolding(fieldSpec) ==
    Cardinality({name \in {"filled", "missing", "verificationFailed"} :
                    \E i \in 1..Len(fieldSets[name]) : fieldSets[name][i] = fieldSpec})

NotApproved == {<<"denied">>, <<"timeout">>, <<"canceled">>}

\* C31: finish passes one result to resolve, that of the first of the
\* Approve click, the Deny click, the timer and the stop; the waiting step
\* is dispatched exactly on an approval and skipped otherwise; and once the
\* card is settled no click and no timer changes it or the run.
C31_ResolvesOnce ==
    /\ [](/\ Len(card.results) <= 1
          /\ card.settled <=> card.results # <<>>
          /\ pendingApprovalResolver <=> (card.open /\ ~card.settled)
          /\ pendingApprovalResolver =>
                (run.pc = "approval" /\ card.step = run.index /\ card.timer /\ ~card.disabled))
    /\ [][(run.pc = "approval" /\ run' # run) =>
             \/ /\ card'.results = <<"approved">>
                /\ run'.approval = "approved"
                /\ run'.index = run.index
                /\ run'.skippedCount = run.skippedCount
             \/ /\ card'.results \in NotApproved \/ card'.step > card.step
                /\ run'.approval # "approved"
                /\ run'.skippedCount = run.skippedCount + 1
                /\ \A i \in 1..Len(Sent) :
                      Sent[i].type = "EXECUTE_AGENT_PLAN" => Sent[i].plan # plan[run.index]]_vars
    /\ [][card.settled => (card' = card \/ card'.step > card.step)]_vars

\* the timer answered the card of the first step, which was skipped, and the
\* card, still in the chat, is the last one appended
C31_Witness ==
    /\ card.results = <<"timeout">>
    /\ card.disabled
    /\ run.skippedCount = 1
    /\ run.index = 2
    /\ run.pc = "dispatch"

\* the steps a plan of the model can have: the planner's MaxPlanLen, and one
\* more in a deterministic plan
PlanSteps == 1..(MaxPlanLen + 1)

\* the approval card of step i waits for its answer
AwaitsApproval(i) == run.pc = "approval" /\ pendingApprovalResolver /\ card.step = i

\* C32: the approval request of every step resolves, whether or not the
\* user clicks or stops (the specification owes the user's events no
\* fairness); the card carries the timeout of the step's risk class, 30 s
\* for FILL_FORM and 25 s for the other high-risk steps; and when its timer
\* is the first to answer, the request resolves with timeout, the step is
\* skipped and not dispatched.
C32_ApprovalResolves ==
    /\ \A i \in PlanSteps : AwaitsApproval(i) ~> ~AwaitsApproval(i)
    /\ [](pendingApprovalResolver =>
             /\ card.step \in PlanSteps
             /\ card.timer
             /\ card.timeoutMs = IF plan[run.index].action = "FILL_FORM" THEN 30000 ELSE 25000)
    /\ [][(pendingApprovalResolver /\ CardEvent("timeout"))
          => /\ card'.results = <<"timeout">> \/ card'.step > card.step
             /\ run'.approval # "approved"
             /\ run'.skippedCount = run.skippedCount + 1
             /\ run'.index > run.index \/ Terminal(run'.pc)
             /\ \A i \in 1..Len(Sent) :
                   Sent[i].type = "EXECUTE_AGENT_PLAN" => Sent[i].plan # plan[run.index]]_vars

\* the timer answered the card of a FILL_FORM step after 30 s; the run went
\* on and ended with the step skipped
C32_Witness ==
    /\ card.results = <<"timeout">>
    /\ card.timeoutMs = 30000
    /\ run.pc = "summary"
    /\ run.skippedCount >= 1

Started == run.pc # "idle"

Ended ==
    /\ Terminal(run.pc)
    /\ ~isProcessing
    /\ ~stopRequested
    /\ ~pendingApprovalResolver

\* C40: when every call the run awaits settles, a run that has started ends
\* in the summary, the stopped notice or the thrown failure, and from then
\* on the side panel is not processing, its stop flag is reset and no
\* approval resolver is pending.
C40_RunTerminates ==
    /\ Started ~> Ended
    /\ [](Terminal(run.pc) => Ended)

\* a run whose only gated step was answered by the timer of its card, ended
\* in the summary
C40_Witness ==
    /\ Ended
    /\ run.pc = "summary"
    /\ card.results = <<"timeout">>
    /\ run.skippedCount = 1

(***************************************************************************)
(* Properties of the send button in chat mode (checked under SpecChat).    *)
(***************************************************************************)

\* C38: at most one request of the side panel is in flight, and a click or
\* Enter while an invocation of handleSendMessage is under way, waiting for
\* the classifier included, starts no further invocation.
C38_OneRequestInFlight ==
    /\ [](Len(chat.handlers) <= 1)
    /\ [][chat.handlers # <<>> => chat'.started = chat.started]_vars

(***************************************************************************)
(* Properties of findFieldElement (checked under SpecField)                *)
(***************************************************************************)
\* the fields of the looked-up document that can be filled
Fillable == {i \in 1..Len(lookup.fields) : isFillableField(lookup.fields[i])}

\* the score of field i against the looked-up descriptor
ScoreOf(i) ==
    scoreFieldCandidate(lookup.fields[i],
                        [name |-> normalizeText(lookup.descriptor.name),
                         label |-> normalizeText(lookup.descriptor.label),
                         placeholder |-> normalizeText(lookup.descriptor.placeholder),
                         type |-> normalizeText(lookup.descriptor.type)])

\* the fillable fields no fillable field outscores
TopScored == {i \in Fillable : \A j \in Fillable : ScoreOf(j) <= ScoreOf(i)}

\* the descriptor's selector resolves to a fillable field
SelectorHits ==
    /\ lookup.descriptor.hasSelector
    /\ lookup.selected.kind = "field"
    /\ lookup.selected.element \in Fillable

====
